---- MODULE Spec2Model ----
(***************************************************************************)
(* Timetable scheduler: the hard-constraint validator                      *)
(* (post_validation.py), the CP-SAT based generator (solver.py) and the    *)
(* optimisation endpoint (api.py, llm_optimizer.py).                       *)
(***************************************************************************)
EXTENDS Integers, Sequences, FiniteSets, TLC

(***************************************************************************)
(* Python values.                                                          *)
(***************************************************************************)
\* Python's None in an integer-valued field (ids, capacity, batch_size).
None == -1
\* Python's None in a string-valued field (a room's type).
NoneStr == "None"
\* bool(v) of an int-or-None value: None and 0 are falsy.
Truthy(v) == v # None /\ v # 0
\* a or b.
PyOr(a, b) == IF Truthy(a) THEN a ELSE b

(***************************************************************************)
(* Bounds of the validator's inputs.                                       *)
(***************************************************************************)
\* Longest assignment list handed to the validator.
MaxLen == 2
\* Timeslots and rooms known to the validator's lookups.
NumTimeslotsV == 2
NumRoomsV == 3
\* The events lookup holds one event for every combination of the four
\* fields the validator reads: faculty_id, batch_id, batch_size, is_lab.
NumEventsV == 2 * 2 * 2 * 2

VARIABLES
    assignments,      \* the assignment list handed to the validator
    timeslot_lookup,  \* id -> {day, slot}
    room_lookup,      \* id -> {capacity, type}
    event_lookup,     \* id -> {batch_id, faculty_id, batch_size, is_lab}
    vresult,          \* the (ok, reason) pair returned
    vpc               \* "ready" before the call, "done" after it

vvars == <<assignments, timeslot_lookup, room_lookup, event_lookup, vresult, vpc>>

\* The validator's locals and the history of its calls.
VARIABLES
    room_ts,          \* (timeslot, room) keys seen by the running call
    faculty_ts,       \* (faculty, timeslot) keys seen by the running call
    batch_ts,         \* (batch, timeslot) keys seen by the running call
    vi,               \* position of the second loop in the list
    vcalls,           \* calls that have returned
    vprev             \* what the call before the last one ended with

svars == <<room_ts, faculty_ts, batch_ts, vi, vcalls, vprev>>

\* One call of optimize_timetable_with_llm up to the answer of ask_llm.
VARIABLES
    goals,            \* the goals list handed to the adapter
    many_entries,     \* whether more than max_include entries are handed in
    key_set,          \* whether OPENAI_API_KEY is non-empty
    retries,          \* ask_llm's parameter retries
    gi,               \* position of build_optimization_prompt's loop in goals
    prompt_lines,     \* the lines collected by build_optimization_prompt
    prompt,           \* what build_optimization_prompt returned
    attempt,          \* ask_llm's loop variable
    outcomes,         \* the outcome of each requests.post made, in order
    llm_text,         \* what ask_llm returned
    llm_exc,              \* the exception the call ended with
    apc               \* position of the call

avars == <<goals, many_entries, key_set, retries, gi, prompt_lines, prompt,
           attempt, outcomes, llm_text, llm_exc, apc>>

(***************************************************************************)
(* validate_assignments_hard_constraints                                   *)
(***************************************************************************)
NoReason ==
    [kind |-> "", event_id |-> None, timeslot_id |-> None, room_id |-> None,
     who |-> None, capacity |-> None, batch_size |-> None, room_type |-> NoneStr]

\* What a call ends with: the pair returned, or the exception that left it.
Ok == [ok |-> TRUE, reason |-> NoReason, raises |-> ""]
Fail(r) == [ok |-> FALSE, reason |-> r, raises |-> ""]
Raise(exc) == [ok |-> FALSE, reason |-> NoReason, raises |-> exc]

\* The first loop: the first assignment, in list order, one of whose ids is
\* not a key of its lookup; 0 when there is none.
IsUnknown(a, tl, rl, el) ==
    \/ a.event_id \notin DOMAIN el
    \/ a.timeslot_id \notin DOMAIN tl
    \/ a.room_id \notin DOMAIN rl

UnknownReason(a, tl, rl, el) ==
    IF a.event_id \notin DOMAIN el
    THEN [NoReason EXCEPT !.kind = "Unknown event_id", !.event_id = a.event_id]
    ELSE IF a.timeslot_id \notin DOMAIN tl
    THEN [NoReason EXCEPT !.kind = "Unknown timeslot_id", !.timeslot_id = a.timeslot_id]
    ELSE [NoReason EXCEPT !.kind = "Unknown room_id", !.room_id = a.room_id]

FirstUnknown_Skipped(as, tl, rl, el) == 0

FirstUnknown_Last(as, tl, rl, el) ==
    IF \E i \in 1..Len(as) : IsUnknown(as[i], tl, rl, el)
    THEN CHOOSE i \in 1..Len(as) :
            /\ IsUnknown(as[i], tl, rl, el)
            /\ \A j \in (i + 1)..Len(as) : ~IsUnknown(as[j], tl, rl, el)
    ELSE 0

FirstUnknown(as, tl, rl, el) ==
    IF \E i \in 1..Len(as) : IsUnknown(as[i], tl, rl, el)
    THEN CHOOSE i \in 1..Len(as) :
            /\ IsUnknown(as[i], tl, rl, el)
            /\ \A j \in 1..(i - 1) : ~IsUnknown(as[j], tl, rl, el)
    ELSE 0

\* The faculty and the batch an assignment is checked under.
FacOf(a, el) == PyOr(el[a.event_id].faculty_id, a.faculty_id)
BatchOf_AssignmentOnly(a, el) == a.batch_id
BatchOf(a, el) == PyOr(el[a.event_id].batch_id, a.batch_id)

\* The capacity test and the room type test of one assignment.
CapacityTooSmall_OffByOne(room_cap, batch_size) ==
    batch_size # None /\ room_cap # None /\ room_cap + 1 < batch_size
CapacityTooSmall(room_cap, batch_size) ==
    batch_size # None /\ room_cap # None /\ room_cap < batch_size
LabMismatch(is_lab, room_type) ==
    is_lab /\ room_type # NoneStr /\ room_type # "lab"

\* The second loop, from assignment i on, with the sets built so far. The
\* subscripts a["event_id"], a["timeslot_id"], a["room_id"], event_lookup[eid]
\* and room_lookup[rid] raise KeyError on a key that is not there.
RECURSIVE UniquenessLoop(_, _, _, _, _, _, _)
UniquenessLoop(as, i, rl, el, seen_room, seen_faculty, seen_batch) ==
    IF i > Len(as) THEN Ok
    ELSE
      LET a == as[i]
          eid == a.event_id
          tid == a.timeslot_id
          rid == a.room_id
          ev == el[eid]
          batch_id == BatchOf(a, el)
          fac_id == FacOf(a, el)
          room == rl[rid]
          room_cap == room.capacity
          room_type == room.type
          batch_size == ev.batch_size
          is_lab == ev.is_lab
          seen_faculty2 == IF fac_id # None THEN seen_faculty \cup {<<fac_id, tid>>}
                         ELSE seen_faculty
          seen_batch2 == IF batch_id # None THEN seen_batch \cup {<<batch_id, tid>>}
                       ELSE seen_batch
      IN
      IF eid = None \/ tid = None \/ rid = None
      THEN Raise("KeyError")
      ELSE IF <<tid, rid>> \in seen_room
      THEN Fail([NoReason EXCEPT !.kind = "Room double-booked",
                                 !.room_id = rid, !.timeslot_id = tid])
      ELSE IF eid \notin DOMAIN el
      THEN Raise("KeyError")
      ELSE IF fac_id # None /\ <<fac_id, tid>> \in seen_faculty
      THEN Fail([NoReason EXCEPT !.kind = "Faculty has multiple events",
                                 !.who = fac_id, !.timeslot_id = tid])
      ELSE IF batch_id # None /\ <<batch_id, tid>> \in seen_batch
      THEN Fail([NoReason EXCEPT !.kind = "Batch has multiple events",
                                 !.who = batch_id, !.timeslot_id = tid])
      ELSE IF rid \notin DOMAIN rl
      THEN Raise("KeyError")
      ELSE IF CapacityTooSmall(room_cap, batch_size)
      THEN Fail([NoReason EXCEPT !.kind = "Room capacity smaller than batch size",
                                 !.room_id = rid, !.capacity = room_cap,
                                 !.batch_size = batch_size, !.event_id = eid])
      ELSE IF LabMismatch(is_lab, room_type)
      THEN Fail([NoReason EXCEPT !.kind = "Event requires a lab",
                                 !.event_id = eid, !.room_id = rid,
                                 !.room_type = room_type])
      ELSE UniquenessLoop(as, i + 1, rl, el, seen_room \cup {<<tid, rid>>},
                          seen_faculty2, seen_batch2)

validate_ExistencePerAssignment(as, tl, rl, el) ==
    LET u == FirstUnknown(as, tl, rl, el) IN
    IF u = 0 THEN UniquenessLoop(as, 1, rl, el, {}, {}, {})
    ELSE LET before == UniquenessLoop(SubSeq(as, 1, u - 1), 1, rl, el,
                                      {}, {}, {})
         IN IF before.ok THEN Fail(UnknownReason(as[u], tl, rl, el))
            ELSE before

validate_RequiresEvent(as, tl, rl, el) ==
    LET u == FirstUnknown(as, tl, rl, el) IN
    IF u # 0 THEN Fail(UnknownReason(as[u], tl, rl, el))
    ELSE IF \E e \in DOMAIN el :
               /\ \A d \in DOMAIN el : e <= d
               /\ \A i \in 1..Len(as) : as[i].event_id # e
    THEN Fail([NoReason EXCEPT !.kind = "Missing event"])
    ELSE UniquenessLoop(as, 1, rl, el, {}, {}, {})

validate_SkipsFirst(as, tl, rl, el) ==
    LET u == FirstUnknown(as, tl, rl, el) IN
    IF u # 0 THEN Fail(UnknownReason(as[u], tl, rl, el))
    ELSE UniquenessLoop(as, 2, rl, el, {}, {}, {})

validate_assignments_hard_constraints(as, tl, rl, el) ==
    LET u == FirstUnknown(as, tl, rl, el) IN
    IF u # 0 THEN Fail(UnknownReason(as[u], tl, rl, el))
    ELSE UniquenessLoop(as, 1, rl, el, {}, {}, {})

(***************************************************************************)
(* The repository read and written by the solver and the optimiser.        *)
(***************************************************************************)
\* Bounds of the input snapshot.
MaxRooms == 2
MaxTimeslots == 2
MaxOfferings == 2
MaxFacultyAssignments == 2

VARIABLES
    rooms_db,        \* Rooms rows, in query order: [id, capacity, type]
    timeslots_db,    \* Timeslots rows ordered by (day, slot): [id, day, slot]
    offerings_db,    \* SubjectOfferings rows: [id, subject_code, batch_id]
    subjects_db,     \* Subjects by code: [type, classes_per_week]
    batches_db,      \* Batches by id: [size]
    assignments_db,  \* FacultyAssignments rows in query order:
                     \* [id, subject_offering_id, faculty_id]
    db_versions,     \* committed TimetableVersion rows
    db_entries,      \* committed TimetableEntry rows
    tx_versions,     \* rows added in the open session, not yet committed
    tx_entries,
    session,         \* "none", "open" or "closed"
    pc,              \* position in generate_timetable
    events,          \* the expanded events
    x,               \* keys (e_idx, t_idx, r_idx) of the decision variables
    solution,        \* the keys whose variable has value 1
    status_name,     \* the solver's status
    result,          \* the dict returned, or NoResult
    raised           \* an exception left the function

gvars == <<rooms_db, timeslots_db, offerings_db, subjects_db, batches_db,
           assignments_db, db_versions, db_entries, tx_versions, tx_entries,
           session, pc, events, x, solution, status_name, result, raised>>

VARIABLES
    opc,             \* position in optimize_timetable_api
    req_version_id,  \* the request's version_id, or None
    src_ver,         \* the source version found, or NoVersion
    validated,       \* the list the validator was called on
    oi,              \* position of the insert loop in optimized_assignments
    response         \* the HTTP response: [status, detail]

ovars == <<opc, req_version_id, src_ver, validated, oi, response>>

vars == <<vvars, svars, gvars, ovars, avars>>

\* str(n) of an integer: a string, never equal to an integer.
Str(n) == <<"str", n>>

\* s.lower() on the strings a type column can hold.
Lower(s) ==
    CASE s = "LAB" -> "lab"
      [] s = "Lab" -> "lab"
      [] s = "THEORY" -> "theory"
      [] s = "Theory" -> "theory"
      [] OTHER -> s

NoResult == [success |-> FALSE, reason |-> "", message |-> <<>>,
             version_id |-> None, entries_count |-> None, solver_status |-> ""]

Failure(reason, message) ==
    [NoResult EXCEPT !.reason = reason, !.message = message]

(***************************************************************************)
(* generate_timetable: loading, expansion, precheck, model building        *)
(***************************************************************************)
\* offering_to_faculty: the faculty of the first assignment row, in query
\* order, of each offering that has one.
FirstAssignmentOf(fas, off_id) ==
    CHOOSE i \in 1..Len(fas) :
        /\ Str(fas[i].subject_offering_id) = off_id
        /\ \A j \in 1..(i - 1) : Str(fas[j].subject_offering_id) # off_id

HasFaculty(fas, off_id) ==
    \E i \in 1..Len(fas) : Str(fas[i].subject_offering_id) = off_id

offering_to_faculty(fas, off_id) ==
    Str(fas[FirstAssignmentOf(fas, off_id)].faculty_id)

\* int(subj.classes_per_week or 1)
ClassesPerWeek(subj) ==
    IF subj.classes_per_week = 0 THEN 1 ELSE subj.classes_per_week

\* int(batch.size or 0)
BatchSize(batch) == IF batch.size = 0 THEN 0 ELSE batch.size

\* (subj.type or "theory").lower()
SubjectType(subj) == Lower(IF subj.type = "" THEN "theory" ELSE subj.type)

\* An offering is expanded when its subject, its batch and a faculty resolve.
Schedulable(off, subjects, batches, fas) ==
    /\ off.subject_code \in DOMAIN subjects
    /\ off.batch_id \in DOMAIN batches
    /\ HasFaculty(fas, Str(off.id))

\* The events of one offering: classes_per_week of them, numbered from
\* event_idx on.
EventsOfOffering_OneEach(off, subjects, batches, fas, event_idx) ==
    [k \in 1..1 |->
        [idx |-> event_idx + k - 1,
         offering_id |-> Str(off.id),
         batch_id |-> Str(off.batch_id),
         faculty_id |-> offering_to_faculty(fas, Str(off.id)),
         subject_type |-> SubjectType(subjects[off.subject_code]),
         batch_size |-> BatchSize(batches[off.batch_id])]]

EventsOfOffering_IdxRestarts(off, subjects, batches, fas, event_idx) ==
    [k \in 1..ClassesPerWeek(subjects[off.subject_code]) |->
        [idx |-> k - 1,
         offering_id |-> Str(off.id),
         batch_id |-> Str(off.batch_id),
         faculty_id |-> offering_to_faculty(fas, Str(off.id)),
         subject_type |-> SubjectType(subjects[off.subject_code]),
         batch_size |-> BatchSize(batches[off.batch_id])]]

EventsOfOffering(off, subjects, batches, fas, event_idx) ==
    [k \in 1..ClassesPerWeek(subjects[off.subject_code]) |->
        [idx |-> event_idx + k - 1,
         offering_id |-> Str(off.id),
         batch_id |-> Str(off.batch_id),
         faculty_id |-> offering_to_faculty(fas, Str(off.id)),
         subject_type |-> SubjectType(subjects[off.subject_code]),
         batch_size |-> BatchSize(batches[off.batch_id])]]

\* The loop over offerings_db from offering i on, with the events so far.
RECURSIVE ExpandEvents(_, _, _, _, _, _)
ExpandEvents(offs, i, subjects, batches, fas, acc) ==
    IF i > Len(offs) THEN acc
    ELSE IF ~Schedulable(offs[i], subjects, batches, fas)
    THEN ExpandEvents(offs, i + 1, subjects, batches, fas, acc)
    ELSE ExpandEvents(offs, i + 1, subjects, batches, fas,
            acc \o EventsOfOffering(offs[i], subjects, batches, fas, Len(acc)))

\* The pre-filter of one (event, room) pair: the variable is created unless
\* the room is too small or a lab event meets a non-lab room.
RoomAdmits_NoCapacity(e, room) ==
    ~(e.subject_type = "lab" /\ Lower(room.type) # "lab")

RoomAdmits_NoLab(e, room) ==
    ~(room.capacity # None /\ room.capacity < e.batch_size)

RoomAdmits_StrictCapacity(e, room) ==
    /\ ~(room.capacity # None /\ room.capacity <= e.batch_size)
    /\ ~(e.subject_type = "lab" /\ Lower(room.type) # "lab")

RoomAdmits(e, room) ==
    /\ ~(room.capacity # None /\ room.capacity < e.batch_size)
    /\ ~(e.subject_type = "lab" /\ Lower(room.type) # "lab")

\* The keys of x, with the 0-based indices of the code.
BuildX(evs, timeslots, rooms) ==
    {k \in (0..(Len(evs) - 1)) \X (0..(Len(timeslots) - 1))
             \X (0..(Len(rooms) - 1)) :
        RoomAdmits(evs[k[1] + 1], rooms[k[3] + 1])}

\* vars_for_e is empty for some event: the first such event.
HasEmptyDomain(evs, xs) ==
    \E i \in 1..Len(evs) : ~\E k \in xs : k[1] = evs[i].idx

FirstEmptyDomain(evs, xs) ==
    CHOOSE i \in 1..Len(evs) :
        /\ ~\E k \in xs : k[1] = evs[i].idx
        /\ \A j \in 1..(i - 1) : \E k \in xs : k[1] = evs[j].idx

(***************************************************************************)
(* The CP-SAT model: hard constraints (1)-(4) and the objective, over the  *)
(* set of keys whose variable is 1.                                        *)
(***************************************************************************)
\* (1) each event is scheduled exactly once.
AssignedOnce(ones, evs) ==
    \A i \in 1..Len(evs) : Cardinality({k \in ones : k[1] = evs[i].idx}) = 1

\* (2) at most one event in each room per timeslot.
RoomsNonOverlap_Off(ones) == TRUE
RoomsNonOverlap(ones) ==
    \A k1, k2 \in ones : (k1[2] = k2[2] /\ k1[3] = k2[3]) => k1 = k2

\* (3) a batch has no two classes in one timeslot.
BatchesNonOverlap_Off(ones, evs) == TRUE
BatchesNonOverlap(ones, evs) ==
    \A k1, k2 \in ones :
        (evs[k1[1] + 1].batch_id = evs[k2[1] + 1].batch_id /\ k1[2] = k2[2])
            => k1 = k2

\* (4) a faculty teaches no two classes in one timeslot.
FacultyNonOverlap_Off(ones, evs) == TRUE
FacultyNonOverlap(ones, evs) ==
    \A k1, k2 \in ones :
        (evs[k1[1] + 1].faculty_id = evs[k2[1] + 1].faculty_id /\ k1[2] = k2[2])
            => k1 = k2

\* Assignments of one key of x to every event.
Candidates(evs, xs) ==
    LET E == 0..(Len(evs) - 1)
        P == {<<k[2], k[3]>> : k \in xs}
    IN {{<<e, f[e][1], f[e][2]>> : e \in E} :
          f \in {g \in [E -> P] : \A e \in E : <<e, g[e][1], g[e][2]>> \in xs}}

FeasibleSolutions(evs, xs) ==
    {ones \in Candidates(evs, xs) :
        /\ AssignedOnce(ones, evs)
        /\ RoomsNonOverlap(ones)
        /\ BatchesNonOverlap(ones, evs)
        /\ FacultyNonOverlap(ones, evs)}

\* waste = max(0, int(room.capacity or 0) - batch_size)
Waste(k, evs, rooms) ==
    LET cap == IF rooms[k[3] + 1].capacity = None THEN 0
               ELSE rooms[k[3] + 1].capacity
        d == cap - evs[k[1] + 1].batch_size
    IN IF d > 0 THEN d ELSE 0

RECURSIVE TotalWaste(_, _, _)
TotalWaste(ones, evs, rooms) ==
    IF ones = {} THEN 0
    ELSE LET k == CHOOSE q \in ones : TRUE
         IN Waste(k, evs, rooms) + TotalWaste(ones \ {k}, evs, rooms)

OptimalSolutions_AnyFeasible(evs, xs, rooms) == FeasibleSolutions(evs, xs)

OptimalSolutions(evs, xs, rooms) ==
    {ones \in FeasibleSolutions(evs, xs) :
        \A other \in FeasibleSolutions(evs, xs) :
            TotalWaste(ones, evs, rooms) <= TotalWaste(other, evs, rooms)}

(***************************************************************************)
(* generate_timetable, step by step                                        *)
(***************************************************************************)
\* Lines 66 and 321: a return or an exception inside the try block runs the
\* finally clause before it leaves the function.
ExitTry_NoFinally == "done"
ExitTry == "finally"

\* Lines 150-154: the quick precheck.
PrecheckFails_Never(total_instances, total_room_slots) == FALSE
PrecheckFails_AtCapacity(total_instances, total_room_slots) ==
    total_instances >= total_room_slots
PrecheckFails(total_instances, total_room_slots) ==
    total_instances > total_room_slots

\* Lines 64-249: open the session, load, check, expand, precheck, build x.
LoadAndBuild ==
    /\ pc = "start"
    /\ session' = "open"
    /\ LET evs == ExpandEvents(offerings_db, 1, subjects_db, batches_db,
                               assignments_db, <<>>)
           xs == BuildX(evs, timeslots_db, rooms_db)
       IN
       IF Len(rooms_db) = 0 \/ Len(timeslots_db) = 0 \/ Len(offerings_db) = 0
       THEN /\ result' = Failure("insufficient_data", <<>>)
            /\ pc' = ExitTry
            /\ UNCHANGED <<events, x>>
       ELSE IF Len(evs) = 0
       THEN /\ result' = Failure("no_events", <<>>)
            /\ pc' = ExitTry
            /\ UNCHANGED <<events, x>>
       ELSE IF PrecheckFails(Len(evs), Len(rooms_db) * Len(timeslots_db))
       THEN /\ result' = Failure("precheck_failed",
                                 <<Len(evs), Len(rooms_db) * Len(timeslots_db)>>)
            /\ pc' = ExitTry
            /\ events' = evs
            /\ UNCHANGED x
       ELSE IF HasEmptyDomain(evs, xs)
       THEN /\ result' = Failure("no_domain_for_event",
                                 <<evs[FirstEmptyDomain(evs, xs)].offering_id>>)
            /\ pc' = ExitTry
            /\ events' = evs
            /\ x' = xs
       ELSE /\ pc' = "solve"
            /\ events' = evs
            /\ x' = xs
            /\ UNCHANGED result
    /\ UNCHANGED <<rooms_db, timeslots_db, offerings_db, subjects_db, batches_db,
                   assignments_db, db_versions, db_entries, tx_versions,
                   tx_entries, solution, status_name, raised>>

\* The statuses CpSolver.Solve can answer with.
StatusNames == {"OPTIMAL", "FEASIBLE", "INFEASIBLE", "UNKNOWN", "MODEL_INVALID"}

\* The values the solver leaves in the variables with each status: OPTIMAL
\* comes with a minimum of the objective, FEASIBLE with any solution of
\* (1)-(4), INFEASIBLE only when there is none; UNKNOWN (the time ran out
\* first) and MODEL_INVALID come with no values.
SolverAnswers(st, evs, xs, rooms, before) ==
    CASE st = "OPTIMAL" -> OptimalSolutions(evs, xs, rooms)
      [] st = "FEASIBLE" -> FeasibleSolutions(evs, xs)
      [] st = "INFEASIBLE" ->
            IF FeasibleSolutions(evs, xs) = {} THEN {before} ELSE {}
      [] OTHER -> {before}

\* Line 261: status in (cp_model.OPTIMAL, cp_model.FEASIBLE).
Accepted_UnlessInfeasible(st) == st # "INFEASIBLE"
Accepted(st) == st \in {"OPTIMAL", "FEASIBLE"}

\* Lines 254-266: the solver answers within the time limit and the status is
\* classified.
Solve ==
    /\ pc = "solve"
    /\ \E st \in StatusNames :
        /\ status_name' = st
        /\ solution' \in SolverAnswers(st, events, x, rooms_db, solution)
        /\ IF Accepted(st)
           THEN /\ pc' = "write_version"
                /\ UNCHANGED result
           ELSE /\ result' = Failure("no_solution", <<st>>)
                /\ pc' = ExitTry
    /\ UNCHANGED <<rooms_db, timeslots_db, offerings_db, subjects_db, batches_db,
                   assignments_db, db_versions, db_entries, tx_versions,
                   tx_entries, session, events, x, raised>>

\* gen_id(): an id no stored version has.
RECURSIVE MaxId(_)
MaxId(S) ==
    IF S = {} THEN 0
    ELSE LET v == CHOOSE q \in S : TRUE
             m == MaxId(S \ {v})
         IN IF v.id > m THEN v.id ELSE m

gen_id(versions) == MaxId(versions) + 1

\* What db.flush() makes durable: nothing, the rows stay in the open
\* transaction.
Flushed_Commits(stored, pending) == stored \cup pending
Flushed(stored, pending) == stored

\* Lines 272-277: the version row is added and flushed inside the open
\* transaction.
AddVersion ==
    /\ pc = "write_version"
    /\ LET version == [id |-> gen_id(db_versions), name |-> "web_ui",
                       status |-> "draft"]
       IN /\ tx_versions' = {version}
          /\ db_versions' = Flushed(db_versions, {version})
    /\ pc' = "write_entries"
    /\ UNCHANGED <<rooms_db, timeslots_db, offerings_db, subjects_db, batches_db,
                   assignments_db, db_entries, tx_entries, session,
                   events, x, solution, status_name, result, raised>>

\* x.items() is in insertion order: by event, then timeslot, then room.
KeyBefore(a, b) ==
    \/ a[1] < b[1]
    \/ a[1] = b[1] /\ a[2] < b[2]
    \/ a[1] = b[1] /\ a[2] = b[2] /\ a[3] < b[3]

\* The entry of one key with value 1; its id is fresh, here the version's id
\* with the entry's position in creation order.
EntryOf(k, ones, evs, timeslots, rooms, version_id) ==
    [id |-> <<version_id, Cardinality({q \in ones : KeyBefore(q, k)}) + 1>>,
     version_id |-> version_id,
     subject_offering_id |-> evs[k[1] + 1].offering_id,
     faculty_id |-> evs[k[1] + 1].faculty_id,
     batch_id |-> evs[k[1] + 1].batch_id,
     room_id |-> Str(rooms[k[3] + 1].id),
     day |-> timeslots[k[2] + 1].day,
     slot |-> timeslots[k[2] + 1].slot]

\* Lines 279-309: one entry per variable with value 1, added to the session.
AddEntries ==
    /\ pc = "write_entries"
    /\ LET vid == (CHOOSE v \in tx_versions : TRUE).id
       IN tx_entries' = {EntryOf(k, solution, events, timeslots_db, rooms_db, vid) :
                            k \in solution}
    /\ pc' = "commit"
    /\ UNCHANGED <<rooms_db, timeslots_db, offerings_db, subjects_db, batches_db,
                   assignments_db, db_versions, db_entries, tx_versions, session,
                   events, x, solution, status_name, result, raised>>

\* What db.commit() makes durable.
Committed(stored, pending) == stored \cup pending

\* created_entries: one is counted for every key of x whose variable has
\* value 1.
created_entries_AllKeys(xs, ones) == Cardinality(xs)
created_entries(xs, ones) == Cardinality({k \in xs : k \in ones})

\* Lines 311-319: one commit for the version and its entries, then the
\* success result.
Commit ==
    /\ pc = "commit"
    /\ db_versions' = Committed(db_versions, tx_versions)
    /\ db_entries' = Committed(db_entries, tx_entries)
    /\ tx_versions' = {}
    /\ tx_entries' = {}
    /\ result' = [NoResult EXCEPT
                    !.success = TRUE,
                    !.version_id = (CHOOSE v \in tx_versions : TRUE).id,
                    !.entries_count = created_entries(x, solution),
                    !.solver_status = status_name]
    /\ pc' = ExitTry
    /\ UNCHANGED <<rooms_db, timeslots_db, offerings_db, subjects_db, batches_db,
                   assignments_db, session, events, x, solution, status_name,
                   raised>>

\* The flush, an insert or the commit raises: the exception leaves the try
\* block.
WriteRaises ==
    /\ pc \in {"write_version", "write_entries", "commit"}
    /\ raised' = TRUE
    /\ pc' = ExitTry
    /\ UNCHANGED <<rooms_db, timeslots_db, offerings_db, subjects_db, batches_db,
                   assignments_db, db_versions, db_entries, tx_versions,
                   tx_entries, session, events, x, solution, status_name, result>>

\* A query of lines 71-77 or the solver raises: the session is open, the
\* exception leaves the try block.
EarlyRaises ==
    /\ pc \in {"start", "solve"}
    /\ session' = "open"
    /\ raised' = TRUE
    /\ pc' = ExitTry
    /\ UNCHANGED <<rooms_db, timeslots_db, offerings_db, subjects_db, batches_db,
                   assignments_db, db_versions, db_entries, tx_versions,
                   tx_entries, events, x, solution, status_name, result>>

\* Lines 321-322: db.close() ends the session; what was not committed is
\* rolled back.
Close ==
    /\ pc = "finally"
    /\ session' = "closed"
    /\ tx_versions' = {}
    /\ tx_entries' = {}
    /\ pc' = "done"
    /\ UNCHANGED <<rooms_db, timeslots_db, offerings_db, subjects_db, batches_db,
                   assignments_db, db_versions, db_entries, events, x, solution,
                   status_name, result, raised>>

(***************************************************************************)
(* The input snapshots generate_timetable is run on.                       *)
(***************************************************************************)
\* Rooms: a small theory room or a lab of capacity 2; ids follow insertion.
RoomKinds == {[capacity |-> 1, type |-> "theory"], [capacity |-> 2, type |-> "lab"]}
RoomTables ==
    UNION {{[i \in 1..n |-> [id |-> 20 + i, capacity |-> f[i].capacity,
                             type |-> f[i].type]] : f \in [1..n -> RoomKinds]} :
           n \in 0..MaxRooms}

\* Timeslots of one day, (day, slot) unique, ordered by (day, slot).
TimeslotTables ==
    {[i \in 1..n |-> [id |-> 10 + i, day |-> 0, slot |-> i]] : n \in 0..MaxTimeslots}

\* Subjects: a theory subject met twice a week and a lab met once.
SubjectTable ==
    [c \in {"TH", "LB"} |->
        IF c = "TH" THEN [type |-> "theory", classes_per_week |-> 2]
        ELSE [type |-> "lab", classes_per_week |-> 1]]

\* Batches 1 and 2, of sizes 1 and 2.
BatchTable == [b \in {1, 2} |-> [size |-> b]]

\* An offering names a subject and a batch; "XX" is a subject code and 9 a
\* batch id that resolve to nothing.
OfferingKinds ==
    ({"TH", "LB"} \X {1, 2}) \cup {<<"XX", 1>>, <<"TH", 9>>}
OfferingTables ==
    UNION {{[i \in 1..n |-> [id |-> i, subject_code |-> f[i][1],
                             batch_id |-> f[i][2]]] : f \in [1..n -> OfferingKinds]} :
           n \in 0..MaxOfferings}

\* The orders a query without ORDER BY may return n rows in.
QueryOrders(n) ==
    {p \in [1..n -> 1..n] : \A i, j \in 1..n : p[i] = p[j] => i = j}

\* Faculty assignments reference stored offerings and one of two faculty;
\* ids follow insertion, and the rows come in the order the query returns.
FacultyAssignmentTables(n_offerings) ==
    UNION {{[j \in 1..n |-> [id |-> p[j],
                             subject_offering_id |-> f[p[j]].subject_offering_id,
                             faculty_id |-> f[p[j]].faculty_id]] :
              f \in [1..n -> [subject_offering_id : 1..n_offerings,
                              faculty_id : {1, 2}]],
              p \in QueryOrders(n)} :
           n \in 0..MaxFacultyAssignments}

\* The store holds an earlier version with one entry.
EarlierVersions == {[id |-> 1, name |-> "earlier", status |-> "draft"]}
EarlierEntries ==
    {[id |-> <<1, 1>>, version_id |-> 1, subject_offering_id |-> Str(1),
      faculty_id |-> Str(1), batch_id |-> Str(1), room_id |-> Str(21),
      day |-> 0, slot |-> 1]}

\* The validator is not running.
IdleV ==
    /\ assignments = <<>>
    /\ timeslot_lookup = <<>>
    /\ room_lookup = <<>>
    /\ event_lookup = <<>>
    /\ vresult = Ok
    /\ vpc = "idle"
    /\ room_ts = {}
    /\ faculty_ts = {}
    /\ batch_ts = {}
    /\ vi = 0
    /\ vcalls = 0
    /\ vprev = Ok

\* A value that is None or a string, the string as its pieces in order.
PyNone == [none |-> TRUE, text |-> <<>>]
PyStr(t) == [none |-> FALSE, text |-> t]

\* optimize_timetable_with_llm is not running.
IdleA ==
    /\ goals = <<>>
    /\ many_entries = FALSE
    /\ key_set = FALSE
    /\ retries = 0
    /\ gi = 0
    /\ prompt_lines = <<>>
    /\ prompt = PyNone
    /\ attempt = 0
    /\ outcomes = <<>>
    /\ llm_text = ""
    /\ llm_exc = ""
    /\ apc = "idle"

\* optimize_timetable_api is not running.
NoVersion == [id |-> None, name |-> "", status |-> ""]
NoResponse == [status |-> 0, detail |-> <<>>]
IdleO ==
    /\ opc = "idle"
    /\ req_version_id = None
    /\ src_ver = NoVersion
    /\ validated = <<>>
    /\ oi = 0
    /\ response = NoResponse

\* generate_timetable is not running, on an empty snapshot.
IdleG ==
    /\ rooms_db = <<>>
    /\ timeslots_db = <<>>
    /\ offerings_db = <<>>
    /\ subjects_db = SubjectTable
    /\ batches_db = BatchTable
    /\ assignments_db = <<>>
    /\ db_versions = EarlierVersions
    /\ db_entries = EarlierEntries
    /\ tx_versions = {}
    /\ tx_entries = {}
    /\ session = "none"
    /\ pc = "idle"
    /\ events = <<>>
    /\ x = {}
    /\ solution = {}
    /\ status_name = ""
    /\ result = NoResult
    /\ raised = FALSE

Init ==
    /\ IdleV
    /\ IdleA
    /\ IdleO
    /\ rooms_db \in RoomTables
    /\ timeslots_db \in TimeslotTables
    /\ offerings_db \in OfferingTables
    /\ subjects_db = SubjectTable
    /\ batches_db = BatchTable
    /\ assignments_db \in FacultyAssignmentTables(Len(offerings_db))
    /\ db_versions = EarlierVersions
    /\ db_entries = EarlierEntries
    /\ tx_versions = {}
    /\ tx_entries = {}
    /\ session = "none"
    /\ pc = "start"
    /\ events = <<>>
    /\ x = {}
    /\ solution = {}
    /\ status_name = ""
    /\ result = NoResult
    /\ raised = FALSE

Next ==
    \/ (LoadAndBuild /\ UNCHANGED <<vvars, svars, ovars, avars>>)
    \/ (Solve /\ UNCHANGED <<vvars, svars, ovars, avars>>)
    \/ (AddVersion /\ UNCHANGED <<vvars, svars, ovars, avars>>)
    \/ (AddEntries /\ UNCHANGED <<vvars, svars, ovars, avars>>)
    \/ (Commit /\ UNCHANGED <<vvars, svars, ovars, avars>>)
    \/ (WriteRaises /\ UNCHANGED <<vvars, svars, ovars, avars>>)
    \/ (EarlyRaises /\ UNCHANGED <<vvars, svars, ovars, avars>>)
    \/ (Close /\ UNCHANGED <<vvars, svars, ovars, avars>>)

Spec == Init /\ [][Next]_vars

(***************************************************************************)
(* Properties of the versions generate_timetable writes.                   *)
(***************************************************************************)
WrittenVersions == {v.id : v \in db_versions \ EarlierVersions}
EntriesOf(vid) == {en \in db_entries : en.version_id = vid}
OfferingIndexes == 1..Len(offerings_db)
EntriesOfOffering(vid, i) ==
    {en \in EntriesOf(vid) : en.subject_offering_id = Str(offerings_db[i].id)}
SubjectResolves(i) == offerings_db[i].subject_code \in DOMAIN subjects_db
IsSchedulable(i) ==
    /\ SubjectResolves(i)
    /\ offerings_db[i].batch_id \in DOMAIN batches_db
    /\ \E j \in 1..Len(assignments_db) :
          assignments_db[j].subject_offering_id = offerings_db[i].id
RoomOfEntry(en) == CHOOSE r \in 1..Len(rooms_db) : Str(rooms_db[r].id) = en.room_id
OfferingOfEntry(en) ==
    CHOOSE i \in OfferingIndexes : Str(offerings_db[i].id) = en.subject_offering_id

\* C4 as stated: every offering whose subject has classes_per_week = k has
\* exactly k entries in every version written.
C4_CoverageAsStated ==
    \A vid \in WrittenVersions : \A i \in OfferingIndexes :
        SubjectResolves(i) =>
            Cardinality(EntriesOfOffering(vid, i)) =
                subjects_db[offerings_db[i].subject_code].classes_per_week

\* C4 amended: every offering whose subject, batch and faculty resolve has
\* exactly classes_per_week entries in every version written, and every other
\* offering has none.
C4_CoverageOfSchedulable ==
    \A vid \in WrittenVersions : \A i \in OfferingIndexes :
        Cardinality(EntriesOfOffering(vid, i)) =
            IF IsSchedulable(i)
            THEN subjects_db[offerings_db[i].subject_code].classes_per_week
            ELSE 0

\* A version written from two schedulable offerings, one met twice a week.
C4_Witness ==
    \E vid \in WrittenVersions :
        /\ Len(offerings_db) = 2 /\ IsSchedulable(1) /\ IsSchedulable(2)
        /\ Cardinality(EntriesOfOffering(vid, 1)) = 2
        /\ Cardinality(EntriesOfOffering(vid, 2)) = 1

\* C5: no two entries of a written version share (day, slot, room),
\* (day, slot, batch) or (day, slot, faculty).
C5_Exclusive ==
    \A vid \in WrittenVersions : \A e1, e2 \in EntriesOf(vid) :
        (e1 # e2 /\ e1.day = e2.day /\ e1.slot = e2.slot) =>
            /\ e1.room_id # e2.room_id
            /\ e1.batch_id # e2.batch_id
            /\ e1.faculty_id # e2.faculty_id

\* Two entries of one written version in the same timeslot.
C5_Witness ==
    \E vid \in WrittenVersions : \E e1, e2 \in EntriesOf(vid) :
        e1 # e2 /\ e1.day = e2.day /\ e1.slot = e2.slot

\* C6: the room of every entry of a written version holds the entry's batch.
C6_Capacity ==
    \A vid \in WrittenVersions : \A en \in EntriesOf(vid) :
        rooms_db[RoomOfEntry(en)].capacity
            >= batches_db[offerings_db[OfferingOfEntry(en)].batch_id].size

\* An entry of a batch of 2 written while a room of capacity 1 exists.
C6_Witness ==
    \E vid \in WrittenVersions : \E en \in EntriesOf(vid) :
        /\ batches_db[offerings_db[OfferingOfEntry(en)].batch_id].size = 2
        /\ \E r \in 1..Len(rooms_db) : rooms_db[r].capacity = 1

\* C7: every entry of a written version whose subject is a lab is in a lab.
C7_LabInLab ==
    \A vid \in WrittenVersions : \A en \in EntriesOf(vid) :
        subjects_db[offerings_db[OfferingOfEntry(en)].subject_code].type = "lab"
            => rooms_db[RoomOfEntry(en)].type = "lab"

\* A lab entry of a batch of 1 written while a theory room exists that holds it.
C7_Witness ==
    \E vid \in WrittenVersions : \E en \in EntriesOf(vid) :
        /\ subjects_db[offerings_db[OfferingOfEntry(en)].subject_code].type = "lab"
        /\ batches_db[offerings_db[OfferingOfEntry(en)].batch_id].size = 1
        /\ \E r \in 1..Len(rooms_db) :
              rooms_db[r].type = "theory" /\ rooms_db[r].capacity >= 1

\* The lookups of the input snapshot, as the optimiser endpoint projects them:
\* timeslots and rooms by id, events by index.
SnapshotTimeslots ==
    [t \in {timeslots_db[i].id : i \in 1..Len(timeslots_db)} |->
        LET row == timeslots_db[CHOOSE i \in 1..Len(timeslots_db) :
                                    timeslots_db[i].id = t]
        IN [day |-> row.day, slot |-> row.slot]]
SnapshotRooms ==
    [r \in {rooms_db[i].id : i \in 1..Len(rooms_db)} |->
        LET row == rooms_db[CHOOSE i \in 1..Len(rooms_db) : rooms_db[i].id = r]
        IN [capacity |-> row.capacity, type |-> row.type]]
SnapshotEvents ==
    [e \in 0..(Len(events) - 1) |->
        LET off == offerings_db[CHOOSE i \in OfferingIndexes :
                                    Str(offerings_db[i].id) = events[e + 1].offering_id]
            fa == assignments_db[CHOOSE j \in 1..Len(assignments_db) :
                    /\ assignments_db[j].subject_offering_id = off.id
                    /\ \A q \in 1..(j - 1) :
                          assignments_db[q].subject_offering_id # off.id]
        IN [batch_id |-> off.batch_id,
            faculty_id |-> fa.faculty_id,
            batch_size |-> batches_db[off.batch_id].size,
            is_lab |-> subjects_db[off.subject_code].type = "lab"]]

\* The assignment list of a written version: entry n is the n-th event's.
AssignmentsOfVersion(vid) ==
    [n \in 1..Cardinality(EntriesOf(vid)) |->
        LET en == CHOOSE q \in EntriesOf(vid) : q.id = <<vid, n>>
        IN [event_id |-> n - 1,
            timeslot_id |-> timeslots_db[CHOOSE i \in 1..Len(timeslots_db) :
                                /\ timeslots_db[i].day = en.day
                                /\ timeslots_db[i].slot = en.slot].id,
            room_id |-> rooms_db[RoomOfEntry(en)].id,
            faculty_id |-> None,
            batch_id |-> None]]

\* C8: the entries of every written version pass the validator on lookups
\* built from the snapshot the version was solved on.
C8_RoundTrip ==
    \A vid \in WrittenVersions :
        validate_assignments_hard_constraints(
            AssignmentsOfVersion(vid), SnapshotTimeslots, SnapshotRooms,
            SnapshotEvents).ok

\* A written version of three entries, two of them in one timeslot.
C8_Witness ==
    \E vid \in WrittenVersions :
        /\ Cardinality(EntriesOf(vid)) = 3
        /\ \E e1, e2 \in EntriesOf(vid) : e1 # e2 /\ e1.slot = e2.slot

\* C9: a version is stored only together with one entry per event, no entry
\* is stored without its version, and a failure result or an exception
\* leaves the stored versions and entries as they were.
C9_AtomicWrite ==
    /\ \A vid \in WrittenVersions :
          Cardinality(EntriesOf(vid)) = Len(events) /\ Len(events) > 0
    /\ \A en \in db_entries : \E v \in db_versions : v.id = en.version_id
    /\ (result.reason # "" \/ raised) =>
          (db_versions = EarlierVersions /\ db_entries = EarlierEntries)
    /\ (result.success /\ pc = "done") =>
          (result.version_id \in WrittenVersions /\ tx_versions = {} /\ tx_entries = {})

\* The commit raised with the version and two entries pending, and the
\* session was closed.
C9_Witness ==
    /\ raised /\ pc = "done" /\ Cardinality(solution) = 2
    /\ db_versions = EarlierVersions /\ db_entries = EarlierEntries

\* The sum of classes_per_week over the schedulable offerings from i on.
RECURSIVE ClassesOfSchedulable(_)
ClassesOfSchedulable(i) ==
    IF i > Len(offerings_db) THEN 0
    ELSE (IF IsSchedulable(i)
          THEN subjects_db[offerings_db[i].subject_code].classes_per_week
          ELSE 0) + ClassesOfSchedulable(i + 1)

\* C16: on success, entries_count is the number of entries written for the
\* returned version and the sum of classes_per_week over the offerings whose
\* subject, batch and faculty resolve.
C16_EventCount ==
    result.success =>
        /\ result.entries_count = Cardinality(EntriesOf(result.version_id))
        /\ result.entries_count = ClassesOfSchedulable(1)

\* A success on two offerings of which only the first, met twice a week, is
\* schedulable.
C16_Witness ==
    /\ result.success /\ Len(offerings_db) = 2
    /\ IsSchedulable(1) /\ ~IsSchedulable(2)
    /\ result.entries_count = 2

\* Offering i is schedulable and no room holds its batch and suits its type.
HasNoRoom(i) ==
    /\ IsSchedulable(i)
    /\ \A r \in 1..Len(rooms_db) :
          \/ rooms_db[r].capacity < batches_db[offerings_db[i].batch_id].size
          \/ /\ subjects_db[offerings_db[i].subject_code].type = "lab"
             /\ rooms_db[r].type # "lab"

\* The failure the input calls for before the solver runs, "" when none:
\* the first of the four conditions that holds.
ExpectedReason ==
    IF Len(rooms_db) = 0 \/ Len(timeslots_db) = 0 \/ Len(offerings_db) = 0
    THEN "insufficient_data"
    ELSE IF ClassesOfSchedulable(1) = 0 THEN "no_events"
    ELSE IF ClassesOfSchedulable(1) > Len(rooms_db) * Len(timeslots_db)
    THEN "precheck_failed"
    ELSE IF \E i \in OfferingIndexes : HasNoRoom(i) THEN "no_domain_for_event"
    ELSE ""

FailureReasons ==
    {"insufficient_data", "no_events", "precheck_failed", "no_domain_for_event",
     "no_solution"}

\* C17: once the input is loaded and no query raised, the result carries the first failure the
\* input calls for, in the order insufficient_data, no_events,
\* precheck_failed, no_domain_for_event, the last with the offering of the
\* first event that has no room; without such a failure the only reason
\* possible is no_solution; a result that is not a success carries one of
\* the five reasons.
C17_FailureOrder ==
    (pc # "start" /\ ~raised) =>
        /\ ExpectedReason # "" =>
              /\ ~result.success /\ result.reason = ExpectedReason
              /\ ExpectedReason = "no_domain_for_event" =>
                    \E i \in OfferingIndexes :
                        /\ HasNoRoom(i)
                        /\ \A j \in 1..(i - 1) : ~HasNoRoom(j)
                        /\ result.message = <<Str(offerings_db[i].id)>>
        /\ ExpectedReason = "" => result.reason \in {"", "no_solution"}
        /\ (pc = "done" /\ ~result.success /\ ~raised) =>
              result.reason \in FailureReasons

\* Three events for two room slots, one of them a lab event of a batch no
\* room suits: the precheck answers.
C17_Witness ==
    /\ pc = "done" /\ result.reason = "precheck_failed"
    /\ \E i \in OfferingIndexes : HasNoRoom(i)
    /\ ClassesOfSchedulable(1) = 3
    /\ Len(rooms_db) * Len(timeslots_db) = 2

\* C18: a success comes only with status OPTIMAL or FEASIBLE; with any
\* other status the result is the failure no_solution carrying the status
\* name, nothing is raised and nothing is written.
C18_Classification ==
    /\ result.success => status_name \in {"OPTIMAL", "FEASIBLE"}
    /\ status_name \in {"INFEASIBLE", "UNKNOWN", "MODEL_INVALID"} =>
          /\ result = Failure("no_solution", <<status_name>>)
          /\ ~raised
          /\ db_versions = EarlierVersions /\ db_entries = EarlierEntries
          /\ tx_versions = {} /\ tx_entries = {}

\* The solver found two events of one batch infeasible in a single timeslot
\* with room for both.
C18_Witness ==
    /\ pc = "done" /\ status_name = "INFEASIBLE"
    /\ Len(events) = 2 /\ Len(timeslots_db) = 1 /\ Len(rooms_db) = 2
    /\ result.reason = "no_solution" /\ result.message = <<"INFEASIBLE">>

\* The events owed to the schedulable offerings before offering i.
ClassesBefore(i) == ClassesOfSchedulable(1) - ClassesOfSchedulable(i)

\* The offering the n-th event belongs to when every schedulable offering,
\* in input order, contributes classes_per_week events in a row.
ReferenceOffering(n) ==
    CHOOSE i \in OfferingIndexes :
        /\ IsSchedulable(i)
        /\ ClassesBefore(i) < n
        /\ n <= ClassesBefore(i)
                  + subjects_db[offerings_db[i].subject_code].classes_per_week

\* C19: once expanded (no query raised), the event list has classes_per_week events for every
\* schedulable offering and none for the others, in the offerings' input
\* order with the events of one offering in a row, and the n-th event has
\* index n - 1.
C19_Expansion ==
    (pc # "start" /\ ~raised /\ result.reason # "insufficient_data") =>
        /\ Len(events) = ClassesOfSchedulable(1)
        /\ \A n \in 1..Len(events) :
              /\ events[n].idx = n - 1
              /\ events[n].offering_id = Str(offerings_db[ReferenceOffering(n)].id)
              /\ events[n].batch_id
                    = Str(offerings_db[ReferenceOffering(n)].batch_id)

\* A skipped first offering and a second one met twice a week: two events,
\* indexed from 0, both of the second offering.
C19_Witness ==
    /\ pc = "solve" /\ Len(offerings_db) = 2
    /\ ~IsSchedulable(1) /\ IsSchedulable(2)
    /\ Len(events) = 2
    /\ events[1].idx = 0 /\ events[2].idx = 1
    /\ events[1].offering_id = Str(offerings_db[2].id)

\* The faculty of the assignment with the smallest id among those of
\* offering i.
FacultyOfSmallestId(i) ==
    LET rows == {j \in 1..Len(assignments_db) :
                    assignments_db[j].subject_offering_id = offerings_db[i].id}
        first == CHOOSE j \in rows :
                    \A q \in rows : assignments_db[j].id <= assignments_db[q].id
    IN Str(assignments_db[first].faculty_id)

\* C20 as stated: every event and every entry written of an offering carries
\* the faculty of the offering's assignment with the smallest id, in whatever
\* order the assignments were returned.
C20_SmallestIdAsStated ==
    /\ \A n \in 1..Len(events) : \A i \in OfferingIndexes :
          events[n].offering_id = Str(offerings_db[i].id) =>
              events[n].faculty_id = FacultyOfSmallestId(i)
    /\ \A vid \in WrittenVersions : \A en \in EntriesOf(vid) :
          en.faculty_id = FacultyOfSmallestId(OfferingOfEntry(en))

\* The decision variables have been built (no query raised before).
ModelBuilt ==
    /\ pc # "start" /\ ~raised
    /\ result.reason \notin {"insufficient_data", "no_events", "precheck_failed"}

\* C21: x has a variable for event e, timeslot t and room r exactly when the
\* room's capacity is at least the event's batch size and the event is not a
\* lab event or the room is a lab; whether it has one does not depend on t.
C21_DomainPruning ==
    ModelBuilt =>
        /\ \A e \in 0..(Len(events) - 1) : \A t \in 0..(Len(timeslots_db) - 1) :
           \A r \in 0..(Len(rooms_db) - 1) :
              <<e, t, r>> \in x <=>
                  /\ rooms_db[r + 1].capacity >= events[e + 1].batch_size
                  /\ \/ events[e + 1].subject_type # "lab"
                     \/ rooms_db[r + 1].type = "lab"
        /\ \A k \in x : \A t \in 0..(Len(timeslots_db) - 1) :
              <<k[1], t, k[3]>> \in x
        /\ \A k \in x :
              /\ k[1] \in 0..(Len(events) - 1)
              /\ k[2] \in 0..(Len(timeslots_db) - 1)
              /\ k[3] \in 0..(Len(rooms_db) - 1)

\* A lab event of a batch of 1 with a theory room and a lab to choose from,
\* in two timeslots: it has variables for the lab only, and a theory event
\* of a batch of 2 has none for the room of capacity 1.
C21_Witness ==
    /\ pc = "solve" /\ Len(timeslots_db) = 2 /\ Len(rooms_db) = 2
    /\ \E e \in 0..(Len(events) - 1) : \E r1, r2 \in 0..(Len(rooms_db) - 1) :
          /\ events[e + 1].subject_type = "lab" /\ events[e + 1].batch_size = 1
          /\ rooms_db[r1 + 1].type = "theory" /\ rooms_db[r2 + 1].type = "lab"
          /\ <<e, 0, r1>> \notin x /\ <<e, 0, r2>> \in x /\ <<e, 1, r2>> \in x
    /\ \E e \in 0..(Len(events) - 1) :
          events[e + 1].subject_type = "theory" /\ events[e + 1].batch_size = 2

\* The seats an entry leaves empty, and their sum over a set of entries.
SeatWaste(en) ==
    LET d == rooms_db[RoomOfEntry(en)].capacity
                - batches_db[offerings_db[OfferingOfEntry(en)].batch_id].size
    IN IF d > 0 THEN d ELSE 0

RECURSIVE SeatWasteOf(_)
SeatWasteOf(entries) ==
    IF entries = {} THEN 0
    ELSE LET en == CHOOSE q \in entries : TRUE
         IN SeatWaste(en) + SeatWasteOf(entries \ {en})

\* The written version wastes no more seats than any assignment of the same
\* events that satisfies (1)-(4) on the pruned domains.
WasteIsMinimal(vid) ==
    \A other \in FeasibleSolutions(events, x) :
        SeatWasteOf(EntriesOf(vid)) <= TotalWaste(other, events, rooms_db)

\* C22 as stated: every version written has the minimum total seat waste.
C22_OptimalAsStated ==
    \A vid \in WrittenVersions : WasteIsMinimal(vid)

\* C22 amended: every version written with solver status OPTIMAL has the
\* minimum total seat waste; one written with status FEASIBLE satisfies
\* (1)-(4) on the pruned domains.
C22_OptimalWhenProven ==
    \A vid \in WrittenVersions :
        /\ status_name = "OPTIMAL" => WasteIsMinimal(vid)
        /\ status_name = "FEASIBLE" =>
              /\ solution \in FeasibleSolutions(events, x)
              /\ Cardinality(EntriesOf(vid)) = Cardinality(solution)

\* A version written with status OPTIMAL although another feasible assignment
\* wastes more seats.
C22_Witness ==
    \E vid \in WrittenVersions :
        /\ status_name = "OPTIMAL"
        /\ \E other \in FeasibleSolutions(events, x) :
              TotalWaste(other, events, rooms_db) > SeatWasteOf(EntriesOf(vid))

\* C23: when generate_timetable has returned or let an exception out, the
\* session it opened is closed; the session is open only while the function
\* runs.
C23_SessionReleased ==
    /\ pc = "done" => session = "closed"
    /\ session = "open" => pc \notin {"start", "done"}
    /\ session = "none" => pc = "start"

\* A query raised right after the session was opened, and the session was
\* closed.
C23_Witness ==
    /\ pc = "done" /\ raised /\ session = "closed"
    /\ events = <<>> /\ status_name = "" /\ result = NoResult
    /\ Len(offerings_db) = 2

\* Some faculty, or some batch, has more events than there are timeslots.
FacultyOverloaded ==
    \E n \in 1..Len(events) :
        Cardinality({m \in 1..Len(events) :
                        events[m].faculty_id = events[n].faculty_id})
            > Len(timeslots_db)
BatchOverloaded ==
    \E n \in 1..Len(events) :
        Cardinality({m \in 1..Len(events) :
                        events[m].batch_id = events[n].batch_id})
            > Len(timeslots_db)

\* C24: with an overloaded faculty or batch and no more events than room
\* slots, there is no success and no version, pending or stored; the result
\* returned is no_solution or no_domain_for_event.
C24_NoDoubleBooking ==
    ((FacultyOverloaded \/ BatchOverloaded)
       /\ Len(events) <= Len(rooms_db) * Len(timeslots_db)) =>
        /\ ~result.success
        /\ db_versions = EarlierVersions /\ tx_versions = {}
        /\ db_entries = EarlierEntries /\ tx_entries = {}
        /\ (pc = "done" /\ ~raised) =>
              result.reason \in {"no_solution", "no_domain_for_event"}

\* Two events of different batches taught by one faculty, one timeslot and
\* two rooms they fit in: the solver found it infeasible.
C24_Witness ==
    /\ pc = "done" /\ Len(events) = 2
    /\ Len(timeslots_db) = 1 /\ Len(rooms_db) = 2
    /\ FacultyOverloaded /\ ~BatchOverloaded
    /\ status_name = "INFEASIBLE" /\ result.reason = "no_solution"

\* The offerings the expansion passes over: subject missing, batch missing or
\* no faculty assignment.
SkippedOfferings == {i \in OfferingIndexes : ~IsSchedulable(i)}

\* C25 as stated: the result returned after the expansion carries a count of
\* the offerings skipped.
C25_SkippedAsStated ==
    (pc = "done" /\ ~raised /\ result.reason # "insufficient_data") =>
        /\ "skipped_offerings" \in DOMAIN result
        /\ result["skipped_offerings"] = Cardinality(SkippedOfferings)

\* The (timeslot, room) pairs of the loaded data, and the ways to give every
\* event one pair of its own.
RoomSlots == (1..Len(timeslots_db)) \X (1..Len(rooms_db))
Placements ==
    {f \in [1..Len(events) -> RoomSlots] :
        \A m, n \in 1..Len(events) : m # n => f[m] # f[n]}

\* C29: when the result is precheck_failed, the events cannot be given one
\* (timeslot, room) pair each with no pair used twice.
C29_PrecheckSound ==
    result.reason = "precheck_failed" => Placements = {}

\* The precheck failed with one event more than there are pairs.
C29_Witness ==
    /\ pc = "done" /\ result.reason = "precheck_failed"
    /\ Len(rooms_db) * Len(timeslots_db) >= 2
    /\ Len(events) = Len(rooms_db) * Len(timeslots_db) + 1

(***************************************************************************)
(* optimize_timetable_api                                                  *)
(***************************************************************************)
\* int(s) of the string of an integer.
IntOfStr(s) == s[2]

\* The keys of every dict parse_llm_assignments returns.
ParsedKeys == {"event_id", "timeslot_id", "room_id"}

\* The lists the re-optimizer may return: known and unknown events, the
\* snapshot's timeslots and rooms.
OptimizedLists ==
    UNION {[1..n -> [event_id : 1..3, timeslot_id : {11, 12}, room_id : {21, 22},
                     faculty_id : {None}, batch_id : {None}]] : n \in 0..MaxLen}

\* Lines 426-464: the events lookup, one event per offering id found in the
\* source version's entries.
BuildEventsLookup(entries) ==
    [eid \in {IntOfStr(en.subject_offering_id) : en \in entries} |->
        IF \E i \in 1..Len(offerings_db) : offerings_db[i].id = eid
        THEN LET off == offerings_db[CHOOSE i \in 1..Len(offerings_db) :
                                        offerings_db[i].id = eid]
             IN [batch_id |-> off.batch_id,
                 faculty_id |->
                    IF \E j \in 1..Len(assignments_db) :
                          assignments_db[j].subject_offering_id = off.id
                    THEN assignments_db[CHOOSE j \in 1..Len(assignments_db) :
                            /\ assignments_db[j].subject_offering_id = off.id
                            /\ \A q \in 1..(j - 1) :
                                  assignments_db[q].subject_offering_id # off.id
                         ].faculty_id
                    ELSE None,
                 is_lab |-> IF off.subject_code \in DOMAIN subjects_db
                            THEN subjects_db[off.subject_code].type = "lab"
                            ELSE FALSE,
                 batch_size |-> IF off.batch_id \in DOMAIN batches_db
                                THEN batches_db[off.batch_id].size
                                ELSE None]
        ELSE LET row == CHOOSE en \in entries : IntOfStr(en.subject_offering_id) = eid
             IN [batch_id |-> IntOfStr(row.batch_id), faculty_id |-> IntOfStr(row.faculty_id),
                 is_lab |-> FALSE, batch_size |-> None]]

\* Lines 466-471: timeslots and rooms by id.
BuildTimeslotLookup ==
    [t \in {timeslots_db[i].id : i \in 1..Len(timeslots_db)} |->
        LET row == timeslots_db[CHOOSE i \in 1..Len(timeslots_db) :
                                    timeslots_db[i].id = t]
        IN [day |-> row.day, slot |-> row.slot]]
BuildRoomsLookup ==
    [r \in {rooms_db[i].id : i \in 1..Len(rooms_db)} |->
        LET row == rooms_db[CHOOSE i \in 1..Len(rooms_db) : rooms_db[i].id = r]
        IN [capacity |-> row.capacity, type |-> row.type]]

\* The version with the latest created_at: ids grow with creation.
LatestVersion(versions) ==
    CHOOSE v \in versions : \A w \in versions : w.id <= v.id

\* Lines 397-489: find the source version, load its entries, build the
\* lookups; 404 when there is no such version.
LoadSource ==
    /\ UNCHANGED <<svars, avars>>
    /\ opc = "start"
    /\ session' = "open"
    /\ LET found ==
            IF req_version_id # None
            THEN {v \in db_versions : v.id = req_version_id}
            ELSE IF db_versions = {} THEN {} ELSE {LatestVersion(db_versions)}
       IN IF found = {}
          THEN /\ response' = [status |-> 404, detail |-> <<"version not found">>]
               /\ opc' = "finally"
               /\ UNCHANGED <<src_ver, event_lookup, timeslot_lookup, room_lookup>>
          ELSE LET src == CHOOSE v \in found : TRUE
               IN /\ src_ver' = src
                  /\ event_lookup' =
                        BuildEventsLookup({en \in db_entries : en.version_id = src.id})
                  /\ timeslot_lookup' = BuildTimeslotLookup
                  /\ room_lookup' = BuildRoomsLookup
                  /\ opc' = "optimize"
                  /\ UNCHANGED response
    /\ UNCHANGED <<assignments, vresult, vpc, req_version_id, validated, oi>>
    /\ UNCHANGED <<rooms_db, timeslots_db, offerings_db, subjects_db, batches_db,
                   assignments_db, db_versions, db_entries, tx_versions,
                   tx_entries, pc, events, x, solution, status_name, result,
                   raised>>

\* Lines 491-502: the re-optimizer returns a parsed assignment list.
OptimizerReturns ==
    /\ UNCHANGED <<svars, avars>>
    /\ opc = "optimize"
    /\ assignments' \in OptimizedLists
    /\ opc' = "validate"
    /\ UNCHANGED <<timeslot_lookup, room_lookup, event_lookup, vresult, vpc>>
    /\ UNCHANGED <<req_version_id, src_ver, validated, oi, response>>
    /\ UNCHANGED gvars

\* Lines 503-504: the request or the parse raised.
OptimizerRaises ==
    /\ UNCHANGED <<svars, avars>>
    /\ opc = "optimize"
    /\ response' = [status |-> 500, detail |-> <<"LLM optimization failed">>]
    /\ opc' = "finally"
    /\ UNCHANGED vvars
    /\ UNCHANGED <<req_version_id, src_ver, validated, oi>>
    /\ UNCHANGED gvars

\* Line 508: the request is rejected when the validator did not return ok.
Rejects_Never(valid) == FALSE
Rejects(valid) == ~valid

\* Lines 506-509: strict validation of the returned list.
ValidateOptimized ==
    /\ UNCHANGED <<svars, avars>>
    /\ opc = "validate"
    /\ LET res == validate_assignments_hard_constraints(
                      assignments, timeslot_lookup, room_lookup, event_lookup)
       IN /\ vresult' = res
          /\ vpc' = "done"
          /\ validated' = assignments
          /\ IF Rejects(res.ok)
             THEN /\ response' = [status |-> 400, detail |-> <<res.reason>>]
                  /\ opc' = "finally"
             ELSE /\ opc' = "write_version"
                  /\ UNCHANGED response
    /\ UNCHANGED <<assignments, timeslot_lookup, room_lookup, event_lookup>>
    /\ UNCHANGED <<req_version_id, src_ver, oi>>
    /\ UNCHANGED gvars

\* Lines 511-515: the new version is added and committed on its own.
CommitVersion ==
    /\ UNCHANGED <<svars, avars>>
    /\ opc = "write_version"
    /\ LET new_version == [id |-> gen_id(db_versions),
                           name |-> <<src_ver.name, "-llm-opt">>,
                           status |-> "draft"]
       IN db_versions' = Committed(db_versions, {new_version})
    /\ oi' = 1
    /\ opc' = "insert"
    /\ UNCHANGED vvars
    /\ UNCHANGED <<req_version_id, src_ver, validated, response>>
    /\ UNCHANGED <<rooms_db, timeslots_db, offerings_db, subjects_db, batches_db,
                   assignments_db, db_entries, tx_versions, tx_entries, session,
                   pc, events, x, solution, status_name, result, raised>>

\* The version this request committed.
NewVersionId == gen_id(db_versions) - 1

\* Lines 518-530: one pass of the insert loop. Building the entry reads
\* a["Rooms_id"], a key no parsed assignment has: KeyError, and the request
\* ends in a server error.
InsertEntry ==
    /\ UNCHANGED <<svars, avars>>
    /\ opc = "insert"
    /\ IF oi > Len(assignments)
       THEN /\ opc' = "commit_entries"
            /\ UNCHANGED <<tx_entries, oi, response>>
       ELSE IF "Rooms_id" \notin ParsedKeys
       THEN /\ response' = [status |-> 500, detail |-> <<"KeyError", "Rooms_id">>]
            /\ opc' = "finally"
            /\ UNCHANGED <<tx_entries, oi>>
       ELSE LET a == assignments[oi]
            IN /\ tx_entries' = tx_entries \cup
                    {[id |-> <<NewVersionId, oi>>,
                      version_id |-> NewVersionId,
                      subject_offering_id |-> a.event_id,
                      faculty_id |-> event_lookup[a.event_id].faculty_id,
                      batch_id |-> event_lookup[a.event_id].batch_id,
                      room_id |-> a.room_id,
                      day |-> timeslot_lookup[a.timeslot_id].day,
                      slot |-> timeslot_lookup[a.timeslot_id].slot]}
               /\ oi' = oi + 1
               /\ UNCHANGED <<opc, response>>
    /\ UNCHANGED vvars
    /\ UNCHANGED <<req_version_id, src_ver, validated>>
    /\ UNCHANGED <<rooms_db, timeslots_db, offerings_db, subjects_db, batches_db,
                   assignments_db, db_versions, db_entries, tx_versions, session,
                   pc, events, x, solution, status_name, result, raised>>

\* Lines 531-533: the entries are committed and the new version's id returned.
CommitEntries ==
    /\ UNCHANGED <<svars, avars>>
    /\ opc = "commit_entries"
    /\ db_entries' = Committed(db_entries, tx_entries)
    /\ tx_entries' = {}
    /\ response' = [status |-> 200, detail |-> <<"ok", NewVersionId>>]
    /\ opc' = "finally"
    /\ UNCHANGED vvars
    /\ UNCHANGED <<req_version_id, src_ver, validated, oi>>
    /\ UNCHANGED <<rooms_db, timeslots_db, offerings_db, subjects_db, batches_db,
                   assignments_db, db_versions, tx_versions, session, pc, events,
                   x, solution, status_name, result, raised>>

\* get_db, lines 33-38: the request's session is closed when the request
\* ends; what was not committed is rolled back.
CloseRequest ==
    /\ UNCHANGED <<svars, avars>>
    /\ opc = "finally"
    /\ session' = "closed"
    /\ tx_versions' = {}
    /\ tx_entries' = {}
    /\ opc' = "done"
    /\ UNCHANGED vvars
    /\ UNCHANGED <<req_version_id, src_ver, validated, oi, response>>
    /\ UNCHANGED <<rooms_db, timeslots_db, offerings_db, subjects_db, batches_db,
                   assignments_db, db_versions, db_entries, pc, events, x,
                   solution, status_name, result, raised>>

\* The snapshot the endpoint runs on: a theory room and a lab, two timeslots,
\* two lab offerings of batches 1 and 2 taught by one faculty, and a source
\* version that places them in the lab in different timeslots.
SourceVersions == {[id |-> 1, name |-> "web_ui", status |-> "draft"]}
SourceEntries ==
    {[id |-> <<1, n>>, version_id |-> 1, subject_offering_id |-> Str(n),
      faculty_id |-> Str(1), batch_id |-> Str(n), room_id |-> Str(22),
      day |-> 0, slot |-> n] : n \in 1..2}

InitO ==
    /\ IdleV
    /\ IdleA
    /\ rooms_db = <<[id |-> 21, capacity |-> 1, type |-> "theory"],
                    [id |-> 22, capacity |-> 2, type |-> "lab"]>>
    /\ timeslots_db = <<[id |-> 11, day |-> 0, slot |-> 1],
                        [id |-> 12, day |-> 0, slot |-> 2]>>
    /\ offerings_db = <<[id |-> 1, subject_code |-> "LB", batch_id |-> 1],
                        [id |-> 2, subject_code |-> "LB", batch_id |-> 2]>>
    /\ subjects_db = SubjectTable
    /\ batches_db = BatchTable
    /\ assignments_db = <<[id |-> 1, subject_offering_id |-> 1, faculty_id |-> 1],
                          [id |-> 2, subject_offering_id |-> 2, faculty_id |-> 1]>>
    /\ \/ db_versions = SourceVersions /\ db_entries = SourceEntries
       \/ db_versions = {} /\ db_entries = {}
    /\ tx_versions = {}
    /\ tx_entries = {}
    /\ session = "none"
    /\ pc = "idle"
    /\ events = <<>>
    /\ x = {}
    /\ solution = {}
    /\ status_name = ""
    /\ result = NoResult
    /\ raised = FALSE
    /\ opc = "start"
    /\ req_version_id \in {None, 1, 7}
    /\ src_ver = NoVersion
    /\ validated = <<>>
    /\ oi = 0
    /\ response = NoResponse

NextO ==
    \/ LoadSource
    \/ OptimizerReturns
    \/ OptimizerRaises
    \/ ValidateOptimized
    \/ CommitVersion
    \/ InsertEntry
    \/ CommitEntries
    \/ CloseRequest

SpecO == InitO /\ [][NextO]_vars

(***************************************************************************)
(* Properties of optimize_timetable_api.                                   *)
(***************************************************************************)
StoreUntouched ==
    /\ db_versions \subseteq SourceVersions
    /\ db_entries \subseteq SourceEntries
    /\ tx_versions = {}
    /\ tx_entries = {}

\* C3: nothing is written before the validator returned ok on the very list
\* being persisted, and a failed validation is answered with the validator's
\* reason and leaves the store as it was.
C3_ValidatedBeforeWrite ==
    /\ ~StoreUntouched =>
          (vpc = "done" /\ vresult.ok /\ validated = assignments)
    /\ (vpc = "done" /\ ~vresult.ok) =>
          /\ response = [status |-> 400, detail |-> <<vresult.reason>>]
          /\ StoreUntouched

\* A new version was committed for a validated list of two assignments.
C3_Witness ==
    /\ db_versions \ SourceVersions # {}
    /\ vpc = "done" /\ vresult.ok /\ Len(assignments) = 2

\* C10 as stated: no committed state holds the new version with fewer
\* entries than the validated list, and after a successful call the new
\* version has one entry per validated assignment.
C10_AtomicAsStated ==
    /\ \A v \in db_versions \ SourceVersions :
          Cardinality(EntriesOf(v.id)) = Len(validated)
    /\ response.status = 200 =>
          \E v \in db_versions \ SourceVersions :
              Cardinality(EntriesOf(v.id)) = Len(validated)

\* C15 as stated: a new version is written only when the returned list has
\* exactly one assignment for every event of the source version and none for
\* any other event.
C15_CoverageAsStated ==
    (db_versions \ SourceVersions # {}) =>
        /\ {assignments[i].event_id : i \in 1..Len(assignments)}
              = DOMAIN event_lookup
        /\ Len(assignments) = Cardinality(DOMAIN event_lookup)

(***************************************************************************)
(* The validator on bounded inputs.                                        *)
(***************************************************************************)
\* Event k: faculty_id in {None, 1}, batch_id in {None, 1}, batch_size in
\* {None, 2}, is_lab in BOOLEAN, one event per combination.
EventRowV(k) ==
    [faculty_id |-> IF (k - 1) % 2 = 0 THEN None ELSE 1,
     batch_id   |-> IF ((k - 1) \div 2) % 2 = 0 THEN None ELSE 1,
     batch_size |-> IF ((k - 1) \div 4) % 2 = 0 THEN None ELSE 2,
     is_lab     |-> ((k - 1) \div 8) % 2 = 1]

\* Room 1 is a small theory room, room 2 a lab, room 3 a row that carries
\* neither capacity nor type.
RoomRowV(k) ==
    IF k = 1 THEN [capacity |-> 1, type |-> "theory"]
    ELSE IF k = 2 THEN [capacity |-> 2, type |-> "lab"]
    ELSE [capacity |-> None, type |-> NoneStr]

\* Ids an assignment may carry: the known ones and one that resolves nowhere.
EventIdsV == 1..(NumEventsV + 1)
TimeslotIdsV == 1..(NumTimeslotsV + 1)
RoomIdsV == 1..(NumRoomsV + 1)

\* The optional faculty_id and batch_id keys of an assignment: neither, or
\* one of them.
FallbacksV ==
    {[faculty_id |-> None, batch_id |-> None],
     [faculty_id |-> 1, batch_id |-> None],
     [faculty_id |-> None, batch_id |-> 1]}

AssignmentsV ==
    {[event_id |-> e, timeslot_id |-> t, room_id |-> r,
      faculty_id |-> f.faculty_id, batch_id |-> f.batch_id] :
        e \in EventIdsV, t \in TimeslotIdsV, r \in RoomIdsV, f \in FallbacksV}

ListsV == UNION {[1..n -> AssignmentsV] : n \in 0..MaxLen}

InitV ==
    /\ IdleG
    /\ IdleA
    /\ IdleO
    /\ assignments \in ListsV
    /\ timeslot_lookup = [t \in 1..NumTimeslotsV |-> [day |-> 0, slot |-> t]]
    /\ room_lookup = [r \in 1..NumRoomsV |-> RoomRowV(r)]
    /\ event_lookup = [e \in 1..NumEventsV |-> EventRowV(e)]
    /\ vresult = Ok
    /\ vpc = "ready"
    /\ room_ts = {}
    /\ faculty_ts = {}
    /\ batch_ts = {}
    /\ vi = 0
    /\ vcalls = 0
    /\ vprev = Ok

ValidateCall ==
    /\ vpc = "ready"
    /\ vresult' = validate_assignments_hard_constraints(
                      assignments, timeslot_lookup, room_lookup, event_lookup)
    /\ vpc' = "done"
    /\ UNCHANGED <<assignments, timeslot_lookup, room_lookup, event_lookup>>
    /\ UNCHANGED <<svars, gvars, ovars, avars>>

NextV == ValidateCall

SpecV == InitV /\ [][NextV]_vars

(***************************************************************************)
(* Properties of the validator.                                            *)
(***************************************************************************)
Returned == vpc = "done"
Pairs == {p \in (1..Len(assignments)) \X (1..Len(assignments)) : p[1] < p[2]}
EvOf(i) == event_lookup[assignments[i].event_id]
RoomOf(i) == room_lookup[assignments[i].room_id]
AllResolve ==
    \A i \in 1..Len(assignments) :
        /\ assignments[i].event_id \in DOMAIN event_lookup
        /\ assignments[i].timeslot_id \in DOMAIN timeslot_lookup
        /\ assignments[i].room_id \in DOMAIN room_lookup
SameSlot(p) == assignments[p[1]].timeslot_id = assignments[p[2]].timeslot_id
SameRoom(p) == assignments[p[1]].room_id = assignments[p[2]].room_id

\* No two assignments share (timeslot, room), none whose events have the
\* same faculty or the same batch share a timeslot.
ExclusiveByEvent ==
    \A p \in Pairs :
        /\ ~(SameSlot(p) /\ SameRoom(p))
        /\ (EvOf(p[1]).faculty_id # None
              /\ EvOf(p[1]).faculty_id = EvOf(p[2]).faculty_id) => ~SameSlot(p)
        /\ (EvOf(p[1]).batch_id # None
              /\ EvOf(p[1]).batch_id = EvOf(p[2]).batch_id) => ~SameSlot(p)

FacultyOfAssignment(i) ==
    IF EvOf(i).faculty_id # None THEN EvOf(i).faculty_id
    ELSE assignments[i].faculty_id
BatchOfAssignment(i) ==
    IF EvOf(i).batch_id # None THEN EvOf(i).batch_id
    ELSE assignments[i].batch_id

\* A clash of room, faculty or batch in one timeslot, or a room smaller
\* than its event's batch.
HasClashOrOverflow ==
    \/ \E p \in Pairs :
          /\ SameSlot(p)
          /\ \/ SameRoom(p)
             \/ /\ FacultyOfAssignment(p[1]) # None
                /\ FacultyOfAssignment(p[1]) = FacultyOfAssignment(p[2])
             \/ /\ BatchOfAssignment(p[1]) # None
                /\ BatchOfAssignment(p[1]) = BatchOfAssignment(p[2])
    \/ \E i \in 1..Len(assignments) :
          /\ EvOf(i).batch_size # None /\ RoomOf(i).capacity # None
          /\ RoomOf(i).capacity < EvOf(i).batch_size

\* C2 as stated: a list whose ids all resolve and that double-books a room,
\* a faculty or a batch, overfills a room or puts a lab event in a room that
\* is not of type lab is rejected.
C2_CompleteAsStated ==
    (Returned /\ AllResolve
       /\ (HasClashOrOverflow
             \/ \E i \in 1..Len(assignments) :
                   EvOf(i).is_lab /\ RoomOf(i).type # "lab"))
        => ~vresult.ok

\* C2 amended: a list whose ids all resolve and that double-books a room, a
\* faculty or a batch, overfills a room or puts a lab event in a room whose
\* row gives a type other than lab is rejected.
C2_CompleteWhereTyped ==
    (Returned /\ AllResolve
       /\ (HasClashOrOverflow
             \/ \E i \in 1..Len(assignments) :
                   /\ EvOf(i).is_lab
                   /\ RoomOf(i).type # NoneStr /\ RoomOf(i).type # "lab"))
        => ~vresult.ok

\* Two events of one batch, different rooms, same timeslot: rejected.
C2_Witness ==
    /\ Returned /\ AllResolve /\ Len(assignments) = 2
    /\ SameSlot(<<1, 2>>) /\ ~SameRoom(<<1, 2>>)
    /\ EvOf(1).batch_id # None /\ EvOf(1).batch_id = EvOf(2).batch_id
    /\ EvOf(1).faculty_id = None
    /\ ~vresult.ok /\ vresult.reason.kind = "Batch has multiple events"

(***************************************************************************)
(* Which violation the validator reports.                                  *)
(***************************************************************************)
Resolves(i) ==
    /\ assignments[i].event_id \in DOMAIN event_lookup
    /\ assignments[i].timeslot_id \in DOMAIN timeslot_lookup
    /\ assignments[i].room_id \in DOMAIN room_lookup

\* The reason naming the id of assignment i that resolves nowhere: event,
\* then timeslot, then room.
ExistenceReasonAt(i) ==
    LET a == assignments[i] IN
    IF a.event_id \notin DOMAIN event_lookup
    THEN [NoReason EXCEPT !.kind = "Unknown event_id", !.event_id = a.event_id]
    ELSE IF a.timeslot_id \notin DOMAIN timeslot_lookup
    THEN [NoReason EXCEPT !.kind = "Unknown timeslot_id",
                          !.timeslot_id = a.timeslot_id]
    ELSE [NoReason EXCEPT !.kind = "Unknown room_id", !.room_id = a.room_id]

\* Assignment j, before i, resolves and sits in i's timeslot.
EarlierInSlot(j, i) ==
    /\ j < i /\ Resolves(j)
    /\ assignments[j].timeslot_id = assignments[i].timeslot_id

\* The violation of a resolving assignment i against the assignments before
\* it and its own room, in the order room double-booking, faculty clash,
\* batch clash, capacity, lab compatibility; NoReason when it has none.
ClashReasonAt(i) ==
    LET a == assignments[i]
        ev == event_lookup[a.event_id]
        room == room_lookup[a.room_id]
        before == 1..(i - 1)
    IN
    IF \E j \in before :
          EarlierInSlot(j, i) /\ assignments[j].room_id = a.room_id
    THEN [NoReason EXCEPT !.kind = "Room double-booked", !.room_id = a.room_id,
                          !.timeslot_id = a.timeslot_id]
    ELSE IF /\ FacultyOfAssignment(i) # None
            /\ \E j \in before :
                  /\ EarlierInSlot(j, i)
                  /\ FacultyOfAssignment(j) = FacultyOfAssignment(i)
    THEN [NoReason EXCEPT !.kind = "Faculty has multiple events",
                          !.who = FacultyOfAssignment(i),
                          !.timeslot_id = a.timeslot_id]
    ELSE IF /\ BatchOfAssignment(i) # None
            /\ \E j \in before :
                  /\ EarlierInSlot(j, i)
                  /\ BatchOfAssignment(j) = BatchOfAssignment(i)
    THEN [NoReason EXCEPT !.kind = "Batch has multiple events",
                          !.who = BatchOfAssignment(i),
                          !.timeslot_id = a.timeslot_id]
    ELSE IF /\ ev.batch_size # None /\ room.capacity # None
            /\ room.capacity < ev.batch_size
    THEN [NoReason EXCEPT !.kind = "Room capacity smaller than batch size",
                          !.room_id = a.room_id, !.capacity = room.capacity,
                          !.batch_size = ev.batch_size, !.event_id = a.event_id]
    ELSE IF ev.is_lab /\ room.type # NoneStr /\ room.type # "lab"
    THEN [NoReason EXCEPT !.kind = "Event requires a lab",
                          !.event_id = a.event_id, !.room_id = a.room_id,
                          !.room_type = room.type]
    ELSE NoReason

\* The violation of assignment i with existence checked first.
ViolationAt(i) ==
    IF ~Resolves(i) THEN ExistenceReasonAt(i) ELSE ClashReasonAt(i)

\* The earliest index of the list that satisfies P; 0 when none does.
Earliest(P(_)) ==
    IF \E i \in 1..Len(assignments) : P(i)
    THEN CHOOSE i \in 1..Len(assignments) :
            P(i) /\ \A j \in 1..(i - 1) : ~P(j)
    ELSE 0

Violates(i) == ViolationAt(i) # NoReason
Unresolved(i) == ~Resolves(i)
Clashes(i) == ClashReasonAt(i) # NoReason

\* C11 as stated: a failure carries the reason of the earliest assignment, in
\* list order, that has any violation, with the checks of that assignment in
\* the order existence, room, faculty, batch, capacity, lab.
C11_FirstAsStated ==
    (Returned /\ ~vresult.ok) =>
        /\ Earliest(Violates) # 0
        /\ vresult.reason = ViolationAt(Earliest(Violates))

\* C11 amended: when some assignment has an id that resolves nowhere, a
\* failure carries the existence reason of the earliest such assignment;
\* otherwise it carries the reason of the earliest assignment that has a
\* violation, with the checks in the order room, faculty, batch, capacity,
\* lab, and the assignments after that one do not change the result.
C11_FirstPerPass ==
    (Returned /\ ~vresult.ok) =>
        IF Earliest(Unresolved) # 0
        THEN vresult.reason = ExistenceReasonAt(Earliest(Unresolved))
        ELSE /\ Earliest(Clashes) # 0
             /\ vresult.reason = ClashReasonAt(Earliest(Clashes))
             /\ validate_assignments_hard_constraints(
                    SubSeq(assignments, 1, Earliest(Clashes)), timeslot_lookup,
                    room_lookup, event_lookup) = vresult

\* A clean first assignment and a second one in the same timeslot and room,
\* of the same batch, in a room too small for it: the double-booking is
\* the reason reported.
C11_Witness ==
    /\ Returned /\ AllResolve /\ Len(assignments) = 2
    /\ ClashReasonAt(1) = NoReason
    /\ SameSlot(<<1, 2>>) /\ SameRoom(<<1, 2>>)
    /\ BatchOfAssignment(2) # None /\ BatchOfAssignment(1) = BatchOfAssignment(2)
    /\ EvOf(2).batch_size # None /\ RoomOf(2).capacity # None
    /\ RoomOf(2).capacity < EvOf(2).batch_size
    /\ ~vresult.ok /\ vresult.reason.kind = "Room double-booked"

(***************************************************************************)
(* The validator on longer lists drawn from fewer ids.                     *)
(***************************************************************************)
\* Longest list.
MaxLenL == 3

\* Event 1 carries no faculty, batch or batch size; the last event is a lab
\* event of faculty 1 and batch 1 with batch size 2. An id one past the
\* lookup's keys resolves nowhere; None is the value of a key the assignment
\* does not have.
EventIdsL == {1, NumEventsV, NumEventsV + 1, None}
TimeslotIdsL == {1, 2, NumTimeslotsV + 1, None}
RoomIdsL == {1, 2, NumRoomsV + 1, None}

AssignmentsL ==
    {[event_id |-> e, timeslot_id |-> t, room_id |-> r,
      faculty_id |-> None, batch_id |-> None] :
        e \in EventIdsL, t \in TimeslotIdsL, r \in RoomIdsL}

ListsL == UNION {[1..n -> AssignmentsL] : n \in 0..MaxLenL}

InitL ==
    /\ IdleG
    /\ IdleA
    /\ IdleO
    /\ assignments \in ListsL
    /\ timeslot_lookup = [t \in 1..NumTimeslotsV |-> [day |-> 0, slot |-> t]]
    /\ room_lookup = [r \in 1..NumRoomsV |-> RoomRowV(r)]
    /\ event_lookup = [e \in 1..NumEventsV |-> EventRowV(e)]
    /\ vresult = Ok
    /\ vpc = "ready"
    /\ room_ts = {}
    /\ faculty_ts = {}
    /\ batch_ts = {}
    /\ vi = 0
    /\ vcalls = 0
    /\ vprev = Ok

NextL == ValidateCall

SpecL == InitL /\ [][NextL]_vars

\* C12: a list with an event, timeslot or room id that is in no lookup, or
\* with one of these keys missing, is answered with a returned failure whose
\* reason names the offending id of one of its assignments; nothing is raised.
C12_ClosedWorld ==
    (Returned /\ \E i \in 1..Len(assignments) : Unresolved(i)) =>
        /\ ~vresult.ok
        /\ vresult.raises = ""
        /\ \E i \in 1..Len(assignments) :
              Unresolved(i) /\ vresult.reason = ExistenceReasonAt(i)

\* Two resolving assignments followed by one without a timeslot_id key.
C12_Witness ==
    /\ Returned /\ Len(assignments) = 3
    /\ Resolves(1) /\ Resolves(2)
    /\ assignments[3].event_id \in DOMAIN event_lookup
    /\ assignments[3].timeslot_id = None
    /\ ~vresult.ok /\ vresult.raises = ""
    /\ vresult.reason.kind = "Unknown timeslot_id"
    /\ vresult.reason.timeslot_id = None

\* The reorderings of the assignment list.
PermutationsOf(s) ==
    {[i \in 1..Len(s) |-> s[p[i]]] :
        p \in {q \in [1..Len(s) -> 1..Len(s)] :
                  \A i, j \in 1..Len(s) : q[i] = q[j] => i = j}}

\* C13: a list the validator accepts is accepted in every order.
C13_OrderIndependent ==
    (Returned /\ vresult.ok) =>
        \A q \in PermutationsOf(assignments) :
            validate_assignments_hard_constraints(
                q, timeslot_lookup, room_lookup, event_lookup).ok

\* An accepted list of three different assignments, two of them in one
\* timeslot.
C13_Witness ==
    /\ Returned /\ vresult.ok /\ Len(assignments) = 3
    /\ Cardinality(PermutationsOf(assignments)) = 6
    /\ SameSlot(<<1, 2>>)
    /\ EvOf(3).faculty_id # None

\* C27: when some assignment has an id that resolves nowhere, the validator
\* fails, without raising, with the existence reason of the earliest such
\* assignment, whatever the assignments before it do to each other or to
\* their rooms.
C27_ExistenceFirst ==
    (Returned /\ Earliest(Unresolved) # 0) =>
        /\ ~vresult.ok /\ vresult.raises = ""
        /\ vresult.reason = ExistenceReasonAt(Earliest(Unresolved))

\* Two resolving assignments, the second in the timeslot and room of the
\* first, and a third one naming an unknown id: the unknown id is reported.
C27_Witness ==
    /\ Returned /\ Len(assignments) = 3
    /\ Resolves(1) /\ Resolves(2) /\ ~Resolves(3)
    /\ ClashReasonAt(2).kind = "Room double-booked"
    /\ ~vresult.ok /\ vresult.reason = ExistenceReasonAt(3)

\* The lists obtained by removing assignments: one for each set of positions
\* kept, in the order of the list.
RECURSIVE Keep(_, _, _)
Keep(s, kept, i) ==
    IF i > Len(s) THEN <<>>
    ELSE IF i \in kept THEN <<s[i]>> \o Keep(s, kept, i + 1)
    ELSE Keep(s, kept, i + 1)
SubListsOf(s) == {Keep(s, kept, 1) : kept \in SUBSET (1..Len(s))}

MaxCalls == 2

\* Lines 37-39: set() and defaultdict(set) make a new empty collection,
\* whatever a call before left behind.
AllocateSet_Reused(left) == left
AllocateSet(left) == {}

\* Lines 28-39: the existence loop, then the call's own sets.
CallBegin ==
    /\ vpc = "ready" \/ (vpc = "done" /\ vcalls < MaxCalls)
    /\ vprev' = vresult
    /\ LET u == FirstUnknown(assignments, timeslot_lookup, room_lookup,
                             event_lookup)
       IN IF u # 0
          THEN /\ vresult' = Fail(UnknownReason(assignments[u], timeslot_lookup,
                                                room_lookup, event_lookup))
               /\ vpc' = "done"
               /\ vcalls' = vcalls + 1
               /\ UNCHANGED <<room_ts, faculty_ts, batch_ts, vi>>
          ELSE /\ room_ts' = AllocateSet(room_ts)
               /\ faculty_ts' = AllocateSet(faculty_ts)
               /\ batch_ts' = AllocateSet(batch_ts)
               /\ vi' = 1
               /\ vpc' = "loop"
               /\ UNCHANGED <<vresult, vcalls>>
    /\ UNCHANGED <<assignments, timeslot_lookup, room_lookup, event_lookup>>
    /\ UNCHANGED <<gvars, ovars, avars>>

\* Lines 41-75: one pass of the second loop. A violation returns at once
\* and the call's sets are dropped with it.
CheckAssignment ==
    /\ vpc = "loop" /\ vi <= Len(assignments)
    /\ LET a == assignments[vi]
           tid == a.timeslot_id
           fac_id == FacOf(a, event_lookup)
           batch_id == BatchOf(a, event_lookup)
           res == UniquenessLoop(<<a>>, 1, room_lookup, event_lookup,
                                 room_ts, faculty_ts, batch_ts)
       IN IF res.ok
          THEN /\ room_ts' = room_ts \cup {<<tid, a.room_id>>}
               /\ faculty_ts' = IF fac_id # None
                                THEN faculty_ts \cup {<<fac_id, tid>>}
                                ELSE faculty_ts
               /\ batch_ts' = IF batch_id # None
                              THEN batch_ts \cup {<<batch_id, tid>>}
                              ELSE batch_ts
               /\ vi' = vi + 1
               /\ UNCHANGED <<vresult, vpc, vcalls>>
          ELSE /\ vresult' = res
               /\ vpc' = "done"
               /\ vcalls' = vcalls + 1
               /\ UNCHANGED <<room_ts, faculty_ts, batch_ts, vi>>
    /\ UNCHANGED vprev
    /\ UNCHANGED <<assignments, timeslot_lookup, room_lookup, event_lookup>>
    /\ UNCHANGED <<gvars, ovars, avars>>

\* Lines 77-78: the list is exhausted.
CallReturn ==
    /\ vpc = "loop" /\ vi > Len(assignments)
    /\ vresult' = Ok
    /\ vpc' = "done"
    /\ vcalls' = vcalls + 1
    /\ UNCHANGED <<room_ts, faculty_ts, batch_ts, vi, vprev>>
    /\ UNCHANGED <<assignments, timeslot_lookup, room_lookup, event_lookup>>
    /\ UNCHANGED <<gvars, ovars, avars>>

\* Event 1 carries nothing, the last event is a lab event of faculty 1 and
\* batch 1 with batch size 2, one event id is unknown.
EventIdsS == {1, NumEventsV, NumEventsV + 1}
TimeslotIdsS == {1, 2}
RoomIdsS == {1, 2}

AssignmentsS ==
    {[event_id |-> e, timeslot_id |-> t, room_id |-> r,
      faculty_id |-> None, batch_id |-> None] :
        e \in EventIdsS, t \in TimeslotIdsS, r \in RoomIdsS}

ListsS == UNION {[1..n -> AssignmentsS] : n \in 0..MaxLenL}

InitS ==
    /\ IdleG
    /\ IdleA
    /\ IdleO
    /\ assignments \in ListsS
    /\ timeslot_lookup = [t \in 1..NumTimeslotsV |-> [day |-> 0, slot |-> t]]
    /\ room_lookup = [r \in 1..NumRoomsV |-> RoomRowV(r)]
    /\ event_lookup = [e \in 1..NumEventsV |-> EventRowV(e)]
    /\ vresult = Ok
    /\ vpc = "ready"
    /\ room_ts = {}
    /\ faculty_ts = {}
    /\ batch_ts = {}
    /\ vi = 0
    /\ vcalls = 0
    /\ vprev = Ok

NextS ==
    \/ CallBegin
    \/ CheckAssignment
    \/ CallReturn

SpecS == InitS /\ [][NextS]_vars

\* C14: no step of a call changes the assignment list or a lookup, every
\* call enters its second loop with empty sets, and a call on the inputs of
\* the call before it ends with the same result.
C14_Pure ==
    /\ [][<<assignments, timeslot_lookup, room_lookup, event_lookup>>'
            = <<assignments, timeslot_lookup, room_lookup, event_lookup>>]_vars
    /\ []((vpc = "loop" /\ vi = 1) =>
            (room_ts = {} /\ faculty_ts = {} /\ batch_ts = {}))
    /\ []((Returned /\ vcalls >= 2) => vresult = vprev)

\* The second call on a list of three returned ok, as the first did, with
\* the keys of all three assignments in its sets.
C14_Witness ==
    /\ Returned /\ vcalls = 2 /\ Len(assignments) = 3
    /\ vresult.ok /\ vprev.ok
    /\ Cardinality(room_ts) = 3 /\ faculty_ts # {}

(***************************************************************************)
(* optimize_timetable_with_llm: the prompt and the call of the LLM         *)
(***************************************************************************)
\* Longest goals list and largest retries.
MaxGoals == 3
MaxRetries == 2

\* Goal texts and answers of the LLM.
GoalTexts == {"balance load", "free periods"}
Contents == {"answer 1", "answer 2"}

\* The lines of a prompt: fixed text, f"- {g}" and json.dumps of a table.
Text(t) == [kind |-> "text", arg |-> t]
GoalLine(g) == [kind |-> "goal", arg |-> g]
Dump(table) == [kind |-> "json", arg |-> table]
Newline == [kind |-> "newline", arg |-> ""]

\* The lines the prompt starts with.
Header ==
    <<Text("You are an expert timetable optimizer."),
      Text("You MUST NOT violate hard constraints."),
      Text("1) No faculty can teach >1 event at the same timeslot."),
      Text("2) No batch can attend >1 event at the same timeslot."),
      Text("3) No room double-bookings."),
      Text("4) Room capacity must be >= batch size."),
      Text("5) Lab events must be placed in lab rooms."),
      Text(""),
      Text("Goals to improve (soft constraints)")>>

\* The heads of the schema, entries, timeslots, rooms, faculties and batches
\* sections.
SchemaHead == Text("Provide your result as strict JSON only")
EntriesHead == Text("ENTRIES (current assignments):")
TimeslotsHead == Text("TIMESLOTS (id -> day,slot):")
RoomsHead == Text("ROOMS (id -> capacity,type):")
FacultiesHead == Text("FACULTIES (id -> max_per_day,unavailable_slots_count):")
BatchesHead == Text("BATCHES (id -> size):")
SectionHeads ==
    {SchemaHead, EntriesHead, TimeslotsHead, RoomsHead, FacultiesHead,
     BatchesHead}

\* The lines appended after a goal line.
Sections(truncated) ==
    <<Text(""), SchemaHead, Text("schema"), Text(""),
      Text("SUMMARY:"), Dump("summary"), Text(""), EntriesHead>>
    \o (IF truncated THEN <<Text("(showing first max_include entries)")>>
        ELSE <<>>)
    \o <<Dump("compact"), Text(""),
         TimeslotsHead, Dump("ts_compact"), Text(""),
         RoomsHead, Dump("rooms_compact"), Text(""),
         FacultiesHead, Dump("fac_compact"), Text(""),
         BatchesHead, Dump("bat_compact"), Text(""),
         Text("Now propose improvements"),
         Text("Return the full list of assignments")>>

\* "\n".join(lines)
RECURSIVE Join(_)
Join(lines) ==
    IF Len(lines) <= 1 THEN lines
    ELSE <<Head(lines), Newline>> \o Join(Tail(lines))

\* build_optimization_prompt up to its loop.
BuildHeader ==
    /\ apc = "build"
    /\ prompt_lines' = Header
    /\ gi' = 1
    /\ apc' = "goals"
    /\ UNCHANGED <<goals, many_entries, key_set, retries, prompt, attempt,
                   outcomes, llm_text, llm_exc>>

\* One pass of the loop over goals: the goal line, the sections, and the
\* return that ends the pass.
GoalIteration ==
    /\ apc = "goals" /\ gi <= Len(goals)
    /\ prompt_lines' =
          prompt_lines \o <<GoalLine(goals[gi])>> \o Sections(many_entries)
    /\ prompt' = PyStr(Join(prompt_lines'))
    /\ apc' = "built"
    /\ UNCHANGED <<goals, many_entries, key_set, retries, gi, attempt,
                   outcomes, llm_text, llm_exc>>

\* The loop has no goal left: the function ends without a return statement.
GoalsExhausted ==
    /\ apc = "goals" /\ gi > Len(goals)
    /\ prompt' = PyNone
    /\ apc' = "built"
    /\ UNCHANGED <<goals, many_entries, key_set, retries, gi, prompt_lines,
                   attempt, outcomes, llm_text, llm_exc>>

\* The adapter logs len(prompt) and calls ask_llm with the prompt.
LogAndCall ==
    /\ apc = "built"
    /\ IF prompt.none
       THEN llm_exc' = "TypeError" /\ apc' = "raised"
       ELSE llm_exc' = llm_exc /\ apc' = "ask"
    /\ UNCHANGED <<goals, many_entries, key_set, retries, gi, prompt_lines,
                   prompt, attempt, outcomes, llm_text>>

\* ask_llm up to its loop.
AskEntry ==
    /\ apc = "ask"
    /\ IF ~key_set
       THEN llm_exc' = "RuntimeError" /\ apc' = "raised"
       ELSE llm_exc' = llm_exc /\ apc' = "post"
    /\ attempt' = 0
    /\ UNCHANGED <<goals, many_entries, key_set, retries, gi, prompt_lines,
                   prompt, outcomes, llm_text>>

\* Whether a failed attempt is followed by another one.
ShouldRetry_Always(at, rt) == TRUE
ShouldRetry(at, rt) == at < rt

\* An attempt of range(retries + 1) whose request succeeds.
PostSucceeds ==
    /\ apc = "post" /\ attempt < retries + 1
    /\ \E content \in Contents :
          /\ outcomes' = Append(outcomes, [kind |-> "ok", content |-> content])
          /\ llm_text' = content
    /\ apc' = "returned"
    /\ UNCHANGED <<goals, many_entries, key_set, retries, gi, prompt_lines,
                   prompt, attempt, llm_exc>>

\* An attempt that raises requests.RequestException.
PostFails ==
    /\ apc = "post" /\ attempt < retries + 1
    /\ outcomes' =
          Append(outcomes, [kind |-> "RequestException", content |-> ""])
    /\ IF ShouldRetry(attempt, retries)
       THEN attempt' = attempt + 1 /\ llm_exc' = llm_exc /\ apc' = apc
       ELSE attempt' = attempt /\ llm_exc' = "RequestException"
            /\ apc' = "raised"
    /\ UNCHANGED <<goals, many_entries, key_set, retries, gi, prompt_lines,
                   prompt, llm_text>>

\* An attempt that raises any other exception while the answer is read.
PostBreaks ==
    /\ apc = "post" /\ attempt < retries + 1
    /\ outcomes' = Append(outcomes, [kind |-> "Exception", content |-> ""])
    /\ llm_exc' = "Exception"
    /\ apc' = "raised"
    /\ UNCHANGED <<goals, many_entries, key_set, retries, gi, prompt_lines,
                   prompt, attempt, llm_text>>

GoalLists ==
    UNION {[1..n -> GoalTexts] : n \in 0..MaxGoals}

InitA ==
    /\ IdleV
    /\ IdleG
    /\ IdleO
    /\ goals \in GoalLists
    /\ many_entries \in BOOLEAN
    /\ key_set \in BOOLEAN
    /\ retries \in 0..MaxRetries
    /\ gi = 0
    /\ prompt_lines = <<>>
    /\ prompt = PyNone
    /\ attempt = 0
    /\ outcomes = <<>>
    /\ llm_text = ""
    /\ llm_exc = ""
    /\ apc = "build"

NextA ==
    \/ (BuildHeader /\ UNCHANGED <<vvars, svars, gvars, ovars>>)
    \/ (GoalIteration /\ UNCHANGED <<vvars, svars, gvars, ovars>>)
    \/ (GoalsExhausted /\ UNCHANGED <<vvars, svars, gvars, ovars>>)
    \/ (LogAndCall /\ UNCHANGED <<vvars, svars, gvars, ovars>>)
    \/ (AskEntry /\ UNCHANGED <<vvars, svars, gvars, ovars>>)
    \/ (PostSucceeds /\ UNCHANGED <<vvars, svars, gvars, ovars>>)
    \/ (PostFails /\ UNCHANGED <<vvars, svars, gvars, ovars>>)
    \/ (PostBreaks /\ UNCHANGED <<vvars, svars, gvars, ovars>>)

SpecA == InitA /\ [][NextA]_vars

\* Every step of the call that can be taken is taken in the end.
FairSpecA == SpecA /\ WF_vars(NextA)

\* How often a line occurs in the prompt returned.
Occurrences(line) ==
    Cardinality({k \in 1..Len(prompt.text) : prompt.text[k] = line})

\* C26 as stated: for every goals list the prompt returned is a string with
\* one goal line for each goal of the list and each of the six sections
\* once.
C26_ForwardsAsStated ==
    apc \notin {"build", "goals"} =>
        /\ ~prompt.none
        /\ \A g \in GoalTexts :
              Occurrences(GoalLine(g)) =
                  Cardinality({k \in 1..Len(goals) : goals[k] = g})
        /\ \A head \in SectionHeads : Occurrences(head) = 1

AllRequestExceptions ==
    \A k \in 1..Len(outcomes) : outcomes[k].kind = "RequestException"
Ended == apc \in {"returned", "raised"}

\* C30: ask_llm makes at most retries + 1 requests; a request is followed by
\* another one only when it raised a request exception; a request that
\* succeeds is the last one and its content is what is returned; when
\* retries + 1 requests have raised a request exception the call has raised
\* it and returned nothing; and the call ends.
C30_BoundedRetries ==
    /\ [](Len(outcomes) <= retries + 1)
    /\ [](\A k \in 1..Len(outcomes) :
            /\ k < Len(outcomes) => outcomes[k].kind = "RequestException"
            /\ outcomes[k].kind = "ok" =>
                  /\ k = Len(outcomes) /\ apc = "returned"
                  /\ llm_text = outcomes[k].content)
    /\ [](apc = "returned" =>
            /\ outcomes # <<>>
            /\ outcomes[Len(outcomes)].kind = "ok")
    /\ []((Len(outcomes) = retries + 1 /\ AllRequestExceptions) =>
            /\ apc = "raised" /\ llm_exc = "RequestException"
            /\ llm_text = "")
    /\ <>Ended

\* Two requests raised a request exception and the third one, the last one
\* allowed, succeeded.
C30_Witness ==
    /\ apc = "returned" /\ retries = MaxRetries
    /\ Len(outcomes) = MaxRetries + 1
    /\ \A k \in 1..MaxRetries : outcomes[k].kind = "RequestException"
    /\ llm_text = outcomes[Len(outcomes)].content

====
